---- MODULE Spec2Model ----
(***************************************************************************)
(* Retry executor (lib/retry.ts), error classifier (lib/errors.ts) and the *)
(* retry policy produced by loadConfig (lib/config.ts), as used by         *)
(* AnthropicClient.sendMessage (lib/anthropic-client.ts); the conversation *)
(* manager (lib/conversation.ts) over the session files of utils/storage.  *)
(*                                                                         *)
(* An optional JavaScript value is a set: {} is undefined, {v} is v.       *)
(* Milliseconds are integers; the jitter takes the ends of its range.      *)
(***************************************************************************)
EXTENDS Integers, Sequences, FiniteSets, TLC

VARIABLES
  config,     \* the RetryConfig handed to withRetry (config.retry of loadConfig)
  viaClient,  \* TRUE: withRetry runs sendMessage's wrapped operation
  pc,         \* position of the withRetry call
  attempt,    \* loop variable of withRetry
  lastError,  \* local variable lastError of withRetry
  calls,      \* number of invocations of operation()
  log,        \* observable events of the withRetry call, in order
  result,     \* settlement of the promise returned by withRetry
  input,      \* argument of a stand-alone classifyError call
  output,     \* its completion (the value returned, or the error thrown)
  reclassified, \* completion of classifyError applied to that return value
  retryable,  \* {b}: isRetryable applied to that return value gave b
  history,    \* the HistoryConfig of the ConversationManager
  conversation, \* its field conversation
  now,        \* the clock read by Date.now()
  returned,   \* what the latest ConversationManager call returned
  lastCall,   \* the latest ConversationManager call and its arguments
  nextId,     \* number of UUIDs drawn so far, plus one
  files,      \* ~/.ai-client/sessions: session id -> {} or {file content}
  stats,      \* the field stats of the CostTracker
  statsFile,  \* ~/.ai-client/stats.json: {} or {file content}
  base,       \* the stats the CostTracker started from (construction or reset)
  usages,     \* the records passed to addUsage since then, in order
  costCall,   \* the latest CostTracker call and its argument
  client,     \* defaultModel and its pricing entry in the AnthropicClient's config
  reply,      \* {} or {the {content, usage} sendMessage's operation returned}
  front,      \* the command running: "ask" or "chat" (ChatApp)
  handler,    \* position of askCommand / ChatApp.handleSubmit
  isLoading,  \* ChatApp's isLoading
  before,     \* stats and stats.json when the current request was submitted
  statsTmp,   \* ~/.ai-client/stats.json.tmp: {} or {file content}
  sessionTmp, \* ~/.ai-client/sessions/<id>.json.tmp: session id -> {} or {content}
  saving,     \* position of the saveStats / saveSession call under way
  lines,      \* readline chat: the 'line' handlers suspended at their await
  totals,     \* readline chat: the session counters local to chatCommand
  aborted,    \* "no", or how the user's abort ended the Ink session
  rawApiKey,  \* loadConfig: the apiKey of config.json, {} when it has none
  env,        \* process.env: variable name -> {} or {value}
  keyResult,  \* completion of loadConfig: the apiKey returned or the error thrown
  inodes,     \* files of ~/.ai-client as the kernel holds them: inode -> content
  paths,      \* the inode stats.json and stats.json.tmp name, 0 for none
  writers,    \* the processes inside saveStats: position, data, open file, offset
  typed,      \* ChatApp's state `input`: the text in the input box
  lastKey,    \* the latest key event: "char" (onChange) or "return"
  sent,       \* {} or {the message list the latest sendMessage call was given}
  ledger      \* the usage of every successful request of every invocation so far

convVars == <<history, conversation, now, returned, lastCall, nextId, files>>

costVars == <<stats, statsFile, base, usages, costCall>>

appVars == <<client, reply, front, handler, isLoading, before>>

keyVars == <<rawApiKey, env, keyResult>>

fsVars == <<inodes, paths, writers>>

chatVars == <<typed, lastKey, sent, ledger>>

moreVars == <<keyVars, fsVars, chatVars>>

procVars == <<statsTmp, sessionTmp, saving, lines, totals, aborted, moreVars>>

vars ==
  <<config, viaClient, pc, attempt, lastError, calls, log, result, input, output,
    reclassified, retryable, convVars, costVars, appVars, procVars>>

----------------------------------------------------------------------------
(* Bounds *)

MaxRetriesBound == 3

\* messages in one conversation
MaxLen == 3

\* messages in one conversation that is saved and resumed
MaxSessionLen == 2

\* largest value of the clock
MaxClock == 1

\* session files on disk
MaxFiles == 1

\* UUIDs drawn in one behaviour
MaxIds == 2

\* requests counted in stats.json
MaxRequests == 2

----------------------------------------------------------------------------
(* JavaScript helpers *)

The(opt) == CHOOSE v \in opt : TRUE

\* a || b on optional numbers: undefined and 0 are falsy
OrNum(a, b) == IF a # {} /\ a # {0} THEN a ELSE b

\* a || b on optional strings: undefined and "" are falsy
OrStr(a, b) == IF a # {} /\ a # {""} THEN a ELSE b

\* a default parameter value applies when the argument is undefined
DefaultParam(arg, dflt) == IF arg = {} THEN dflt ELSE arg

\* lo <= x && x < hi, false when x is undefined
InRange(x, lo, hi) == \E v \in x : v >= lo /\ v < hi

Min(a, b) == IF a <= b THEN a ELSE b

----------------------------------------------------------------------------
(* lib/errors.ts *)

\* the value undefined, where an error object is expected
Undefined ==
  [cls |-> "undefined", status |-> {}, statusCode |-> {}, code |-> {},
   message |-> {}, oid |-> 0]

AIClientError(message, statusCode) ==
  [cls |-> "AIClientError", status |-> {}, statusCode |-> statusCode,
   code |-> {}, message |-> message, oid |-> 0]

AuthError(message) ==
  [AIClientError(DefaultParam(message,
      {"Authentication failed. Check your ANTHROPIC_API_KEY in config."}), {401})
   EXCEPT !.cls = "AuthError"]

RateLimitError(message) ==
  [AIClientError(DefaultParam(message,
      {"Rate limited by Anthropic API. Retrying with backoff..."}), {429})
   EXCEPT !.cls = "RateLimitError"]

ServerError(message, statusCode) ==
  [AIClientError(DefaultParam(message, {"Anthropic service error. Retrying..."}),
                 DefaultParam(statusCode, {500}))
   EXCEPT !.cls = "ServerError"]

ValidationError(message) ==
  [AIClientError(message, {400}) EXCEPT !.cls = "ValidationError"]

NetworkError(message) ==
  [AIClientError(DefaultParam(message,
      {"Network error occurred. Check your connection."}), {})
   EXCEPT !.cls = "NetworkError"]

\* the value null, where an error object is expected
Null ==
  [cls |-> "null", status |-> {}, statusCode |-> {}, code |-> {},
   message |-> {}, oid |-> 0]

\* the TypeError the engine throws when a property of null or undefined is read
TypeError ==
  [cls |-> "TypeError", status |-> {}, statusCode |-> {}, code |-> {},
   message |-> {"Cannot read properties of null or undefined (reading 'status')"},
   oid |-> 0]

\* a plain object or a generic Error carrying status / statusCode / code / message
RawFailure(status, statusCode, code, message) ==
  [cls |-> "Object", status |-> status, statusCode |-> statusCode,
   code |-> code, message |-> message, oid |-> 0]

ErrorSubclasses ==
  {"AuthError", "RateLimitError", "ServerError", "ValidationError", "NetworkError"}

\* e instanceof C, by the extends clauses of the classes
instanceOf(e, C) ==
  \/ e.cls = C /\ C \in ErrorSubclasses \cup {"AIClientError"}
  \/ C = "AIClientError" /\ e.cls \in ErrorSubclasses

classifyError_networkFirst(error) ==
  IF instanceOf(error, "AIClientError") THEN error
  ELSE IF error.cls \in {"null", "undefined"} THEN TypeError
  ELSE LET statusCode == OrNum(error.status, error.statusCode) IN
    IF error.code = {"ECONNREFUSED"} \/ error.code = {"ETIMEDOUT"}
      THEN NetworkError(error.message)
    ELSE IF statusCode = {401} \/ statusCode = {403} THEN AuthError({})
    ELSE IF statusCode = {429} THEN RateLimitError({})
    ELSE IF InRange(statusCode, 500, 600) THEN ServerError(error.message, statusCode)
    ELSE IF InRange(statusCode, 400, 500)
      THEN ValidationError(OrStr(error.message, {"Bad request"}))
    ELSE AIClientError(OrStr(error.message, {"Unknown error"}), {})

classifyError_copies(error) ==
  IF instanceOf(error, "AIClientError") THEN [error EXCEPT !.oid = 0]
  ELSE IF error.cls \in {"null", "undefined"} THEN TypeError
  ELSE LET statusCode == OrNum(error.status, error.statusCode) IN
    IF statusCode = {401} \/ statusCode = {403} THEN AuthError({})
    ELSE IF statusCode = {429} THEN RateLimitError({})
    ELSE IF InRange(statusCode, 500, 600) THEN ServerError(error.message, statusCode)
    ELSE IF InRange(statusCode, 400, 500)
      THEN ValidationError(OrStr(error.message, {"Bad request"}))
    ELSE IF error.code = {"ECONNREFUSED"} \/ error.code = {"ETIMEDOUT"}
      THEN NetworkError(error.message)
    ELSE AIClientError(OrStr(error.message, {"Unknown error"}), {})

\* The completion of classifyError(error): the error returned, or TypeError
\* when reading error.status throws because error is null or undefined.
\* An object created here has oid 0 until the caller receives it.
\* a classifier that builds every ServerError with the default status
classifyError_defaultStatus(error) ==
  IF instanceOf(error, "AIClientError") THEN error
  ELSE IF error.cls \in {"null", "undefined"} THEN TypeError
  ELSE LET statusCode == OrNum(error.status, error.statusCode) IN
    IF statusCode = {401} \/ statusCode = {403} THEN AuthError({})
    ELSE IF statusCode = {429} THEN RateLimitError({})
    ELSE IF InRange(statusCode, 500, 600) THEN ServerError(error.message, {})
    ELSE IF InRange(statusCode, 400, 500)
      THEN ValidationError(OrStr(error.message, {"Bad request"}))
    ELSE IF error.code = {"ECONNREFUSED"} \/ error.code = {"ETIMEDOUT"}
      THEN NetworkError(error.message)
    ELSE AIClientError(OrStr(error.message, {"Unknown error"}), {})

classifyError(error) ==
  IF instanceOf(error, "AIClientError") THEN error
  ELSE IF error.cls \in {"null", "undefined"} THEN TypeError
  ELSE LET statusCode == OrNum(error.status, error.statusCode) IN
    IF statusCode = {401} \/ statusCode = {403} THEN AuthError({})
    ELSE IF statusCode = {429} THEN RateLimitError({})
    ELSE IF InRange(statusCode, 500, 600) THEN ServerError(error.message, statusCode)
    ELSE IF InRange(statusCode, 400, 500)
      THEN ValidationError(OrStr(error.message, {"Bad request"}))
    ELSE IF error.code = {"ECONNREFUSED"} \/ error.code = {"ETIMEDOUT"}
      THEN NetworkError(error.message)
    ELSE AIClientError(OrStr(error.message, {"Unknown error"}), {})

isRetryable_authToo(error) ==
  \/ instanceOf(error, "RateLimitError")
  \/ instanceOf(error, "ServerError")
  \/ instanceOf(error, "NetworkError")
  \/ instanceOf(error, "AuthError")

isRetryable_rateLimitOnly(error) ==
  instanceOf(error, "RateLimitError")

isRetryable(error) ==
  \/ instanceOf(error, "RateLimitError")
  \/ instanceOf(error, "ServerError")
  \/ instanceOf(error, "NetworkError")

----------------------------------------------------------------------------
(* lib/config.ts *)

DefaultMaxRetries == 3
DefaultBaseDelayMs == 1000
DefaultMaxDelayMs == 8000
DefaultMaxMessages == 20

DEFAULT_CONFIG ==
  [retry |-> [maxRetries |-> DefaultMaxRetries,
              baseDelayMs |-> DefaultBaseDelayMs,
              maxDelayMs |-> DefaultMaxDelayMs],
   history |-> [enabled |-> TRUE, maxMessages |-> DefaultMaxMessages]]

\* { ...defaults, ...raw }: a key present in raw overrides the default
Spread(defaults, raw) ==
  [k \in DOMAIN defaults |-> IF raw[k] = {} THEN defaults[k] ELSE The(raw[k])]

\* the merge of the parsed config file with the defaults; nothing is validated
loadConfig(rawConfig) ==
  [retry |-> Spread(DEFAULT_CONFIG.retry, rawConfig.retry),
   history |-> Spread(DEFAULT_CONFIG.history, rawConfig.history)]

\* parsed contents of config.json, as far as the "retry" section goes
RawMaxRetries == {{}} \cup {{n} : n \in -1..MaxRetriesBound}
RawDelays == {<<{}, {}>>, <<{}, {2000}>>, <<{100}, {10000}>>}
\* ... and the "history" section
RawEnabled == {{}, {TRUE}, {FALSE}}
RawMaxMessages == {{}} \cup {{n} : n \in -1..(MaxLen - 1)}
RawConfigFiles ==
  {[retry |-> [maxRetries |-> m, baseDelayMs |-> d[1], maxDelayMs |-> d[2]],
    history |-> [enabled |-> e, maxMessages |-> h]] :
     m \in RawMaxRetries, d \in RawDelays, e \in RawEnabled, h \in RawMaxMessages}

----------------------------------------------------------------------------
(* the parts of the state a specification does not use *)

NoConversation == [id |-> 0, messages |-> << >>, createdAt |-> 0, updatedAt |-> 0]
NoCall == [op |-> "none", role |-> "", content |-> "", sessionId |-> 0]

ConversationUnused ==
  /\ history = [enabled |-> TRUE, maxMessages |-> 0]
  /\ conversation = NoConversation
  /\ now = 0
  /\ returned = << >>
  /\ lastCall = NoCall
  /\ nextId = 1
  /\ files = << >>

ZeroStats ==
  [totalInputTokens |-> 0, totalOutputTokens |-> 0, totalCost |-> 0,
   requestCount |-> 0, lastUpdated |-> {}]
NoUsage ==
  [inputTokens |-> 0, outputTokens |-> 0, inputCost |-> 0, outputCost |-> 0,
   totalCost |-> 0]
NoCostCall == [op |-> "none", usage |-> NoUsage]

CostTrackerUnused ==
  /\ stats = ZeroStats
  /\ statsFile = {}
  /\ base = ZeroStats
  /\ usages = << >>
  /\ costCall = NoCostCall

NoSnapshot == [stats |-> ZeroStats, statsFile |-> {}]

CommandUnused ==
  /\ client = [defaultModel |-> "", pricing |-> {}]
  /\ reply = {}
  /\ front = ""
  /\ handler = ""
  /\ isLoading = FALSE
  /\ before = NoSnapshot

NotSaving == [fn |-> "none", id |-> 0, data |-> << >>, at |-> "none"]
ZeroTotals ==
  [totalCost |-> 0, totalInputTokens |-> 0, totalOutputTokens |-> 0,
   requestCount |-> 0]

NotLoaded == [state |-> "none", apiKey |-> << >>, message |-> ""]

KeyUnused ==
  /\ rawApiKey = {}
  /\ env = << >>
  /\ keyResult = NotLoaded

FsUnused ==
  /\ inodes = << >>
  /\ paths = [target |-> 0, temp |-> 0]
  /\ writers = << >>

ChatUnused ==
  /\ typed = ""
  /\ lastKey = "none"
  /\ sent = {}
  /\ ledger = << >>

MoreUnused ==
  /\ KeyUnused
  /\ FsUnused
  /\ ChatUnused

ProcessUnused ==
  /\ MoreUnused
  /\ statsTmp = {}
  /\ sessionTmp = << >>
  /\ saving = NotSaving
  /\ lines = << >>
  /\ totals = ZeroTotals
  /\ aborted = "no"

----------------------------------------------------------------------------
(* lib/retry.ts *)

JitterRange == 250

\* the extremes of Math.random() * 250, a number in [0, 250)
Jitters == {0, JitterRange - 1}

LoopCondition_strict(a, cfg) == a < cfg.maxRetries

\* for (...; attempt <= config.maxRetries; ...)
LoopCondition(a, cfg) == a <= cfg.maxRetries

GiveUp_oneEarly(error, a, cfg) == ~isRetryable(error) \/ a + 1 >= cfg.maxRetries

\* if (!isRetryable(error) || attempt === config.maxRetries) throw error
GiveUp(error, a, cfg) == ~isRetryable(error) \/ a = cfg.maxRetries

exponentialDelay(a, cfg) == cfg.baseDelayMs * 2^a

delay_uncapped(a, cfg) == exponentialDelay(a, cfg)

delay(a, cfg) == Min(exponentialDelay(a, cfg), cfg.maxDelayMs)

AttemptNumber_zeroBased(a) == a

\* first argument of onRetry
AttemptNumber(a) == a + 1

\* values an operation resolves with
Values == {"undefined", "null", "data"}

\* errors an operation handed directly to withRetry rejects with
ThrownErrors ==
  { RateLimitError({}), ServerError({}, {}), NetworkError({}),
    AuthError({}), ValidationError({"Invalid request"}),
    AIClientError({"Generic error"}, {}),
    RawFailure({429}, {}, {}, {"Too many requests"}),
    RawFailure({}, {}, {"ECONNREFUSED"}, {"connect ECONNREFUSED"}),
    RawFailure({}, {}, {}, {"boom"}) }

\* failures of client.messages.create inside sendMessage's operation
RemoteFailures ==
  { RawFailure({429}, {}, {}, {"Too many requests"}),
    RawFailure({503}, {}, {}, {"Overloaded"}),
    RawFailure({}, {}, {"ECONNREFUSED"}, {"connect ECONNREFUSED"}),
    RawFailure({}, {}, {"ETIMEDOUT"}, {}),
    RawFailure({401}, {}, {}, {"invalid x-api-key"}),
    RawFailure({400}, {}, {}, {""}),
    RawFailure({403}, {}, {"ECONNREFUSED"}, {"forbidden"}),
    RawFailure({}, {}, {}, {"boom"}) }

Ev(ev, n, d, err, raw, value) ==
  [ev |-> ev, n |-> n, d |-> d, err |-> err, raw |-> raw, value |-> value]

Pending == [state |-> "pending", value |-> "", error |-> Undefined]
Resolved(v) == [state |-> "resolved", value |-> v, error |-> Undefined]
Rejected(e) == [state |-> "rejected", value |-> "", error |-> e]

\* the loop head with attempt = a: either operation() is invoked, or the loop
\* is left and lastError is thrown
Iterate(a, sofar) ==
  /\ attempt' = a
  /\ IF LoopCondition(a, config)
       THEN /\ calls' = calls + 1
            /\ log' = Append(sofar, Ev("invoke", calls + 1, 0, Undefined, Undefined, ""))
            /\ pc' = "await"
            /\ result' = result
       ELSE /\ pc' = "rejected"
            /\ result' = Rejected(lastError)
            /\ log' = sofar
            /\ calls' = calls

\* withRetry(operation, config, onRetry) called with a caller's own operation
withRetry ==
  /\ pc = "idle"
  /\ viaClient' = FALSE
  /\ Iterate(0, log)
  /\ UNCHANGED <<config, lastError, input, output, reclassified, retryable, convVars, costVars>>

\* AnthropicClient.sendMessage: withRetry(operation, this.config.retry, onRetry)
sendMessage ==
  /\ pc = "idle"
  /\ viaClient' = TRUE
  /\ Iterate(0, log)
  /\ UNCHANGED <<config, lastError, input, output, reclassified, retryable>>
  /\ UNCHANGED <<convVars, costVars>>

\* the same call made by a command, which goes on to await it
callSendMessage ==
  /\ pc = "idle"
  /\ viaClient' = TRUE
  /\ Iterate(0, log)
  /\ UNCHANGED <<config, lastError, input, output, reclassified, retryable>>

operation_rethrow(thrown) == thrown

\* sendMessage's operation: catch (error) { throw classifyError(error) }
operation(thrown) == classifyError(thrown)

OpResolves_keepsGoing(v) ==
  /\ pc = "await"
  /\ Iterate(attempt + 1, Append(log, Ev("ok", calls, 0, Undefined, Undefined, v)))
  /\ UNCHANGED <<config, viaClient, lastError, input, output, reclassified, retryable, convVars, costVars>>

\* return await operation()
OpResolves(v) ==
  /\ pc = "await"
  /\ log' = Append(log, Ev("ok", calls, 0, Undefined, Undefined, v))
  /\ result' = Resolved(v)
  /\ pc' = "resolved"
  /\ UNCHANGED <<config, viaClient, attempt, lastError, calls, input, output, reclassified, retryable, convVars, costVars>>

\* the catch block of withRetry, up to the start of the timer
Caught(thrown, error) ==
  /\ LET failed == Append(log, Ev("fail", calls, 0, error, thrown, ""))
     IN /\ lastError' = error
        /\ IF GiveUp(error, attempt, config)
             THEN /\ pc' = "rejected"
                  /\ result' = Rejected(error)
                  /\ log' = failed
             ELSE \E jitter \in Jitters :
                    LET totalDelay == delay(attempt, config) + jitter IN
                    /\ log' = failed \o
                         << Ev("onRetry", AttemptNumber(attempt), totalDelay,
                               Undefined, Undefined, ""),
                            Ev("sleep", 0, totalDelay, Undefined, Undefined, "") >>
                    /\ pc' = "sleep"
                    /\ result' = result
  /\ UNCHANGED <<config, viaClient, attempt, calls, input, output, reclassified, retryable, convVars, costVars>>

\* operation() rejects: with what it threw, or in sendMessage with the
\* classified failure of client.messages.create
OpRejects(e) ==
  /\ pc = "await"
  /\ e \in (IF viaClient THEN RemoteFailures ELSE ThrownErrors)
  /\ LET thrown == [e EXCEPT !.oid = calls]
         error == IF viaClient THEN operation(thrown) ELSE thrown
     IN Caught(thrown, error)

\* setTimeout(resolve, totalDelay) fires: attempt++ and the loop head again
TimerFires ==
  /\ pc = "sleep"
  /\ Iterate(attempt + 1, Append(log, Ev("wake", 0, 0, Undefined, Undefined, "")))
  /\ UNCHANGED <<config, viaClient, lastError, input, output, reclassified, retryable, convVars, costVars>>

Init ==
  /\ \E rawConfig \in RawConfigFiles : config = loadConfig(rawConfig).retry
  /\ viaClient = FALSE
  /\ pc = "idle"
  /\ attempt = 0
  /\ lastError = Undefined
  /\ calls = 0
  /\ log = << >>
  /\ result = Pending
  /\ input = Undefined
  /\ output = Undefined
  /\ reclassified = Undefined
  /\ retryable = {}
  /\ ConversationUnused
  /\ CostTrackerUnused
  /\ CommandUnused
  /\ ProcessUnused

Next ==
  /\ UNCHANGED appVars
  /\ UNCHANGED procVars
  /\ \/ withRetry
     \/ sendMessage
     \/ \E v \in Values : OpResolves(v)
     \/ \E e \in ThrownErrors \cup RemoteFailures : OpRejects(e)
     \/ TimerFires

Spec == Init /\ [][Next]_vars

\* every invocation of the operation settles and every timer fires
SpecLive ==
  Spec /\ WF_vars(Next /\ pc = "await") /\ WF_vars(Next /\ pc = "sleep")

----------------------------------------------------------------------------
(* classifyError on its own *)

StatusValues ==
  {{}, {0}, {200}, {399}, {400}, {401}, {403}, {404}, {422}, {429}, {499},
   {500}, {503}, {599}, {600}}
StatusCodeValues == {{}, {401}, {429}, {500}}
CodeValues == {{}, {"ECONNREFUSED"}, {"ETIMEDOUT"}, {"ENOTFOUND"}}
MessageValues == {{}, {""}, {"boom"}}

RawFailures ==
  {RawFailure(s, sc, c, m) :
     s \in StatusValues, sc \in StatusCodeValues, c \in CodeValues, m \in MessageValues}

ClassifiedErrors ==
  { AuthError({}), RateLimitError({}), ServerError({}, {}), ServerError({"down"}, {503}),
    ValidationError({"Invalid request"}), NetworkError({}),
    AIClientError({"Generic error"}, {}) }

ClassifyInputs == RawFailures \cup ClassifiedErrors \cup {Null, Undefined}

\* the caller's reference to an object: one created by the call is given the
\* identity id, an object that existed before keeps its own
Alloc(e, id) == IF e.oid = 0 THEN [e EXCEPT !.oid = id] ELSE e

InitClassify ==
  /\ config = DEFAULT_CONFIG.retry
  /\ viaClient = FALSE
  /\ pc = "classify"
  /\ attempt = 0
  /\ lastError = Undefined
  /\ calls = 0
  /\ log = << >>
  /\ result = Pending
  /\ \E x \in ClassifyInputs :
       input = IF x.cls \in {"null", "undefined"} THEN x ELSE [x EXCEPT !.oid = 1]
  /\ output = Undefined
  /\ reclassified = Undefined
  /\ retryable = {}
  /\ ConversationUnused
  /\ CostTrackerUnused
  /\ CommandUnused
  /\ ProcessUnused

\* classifyError(input)
Classify ==
  /\ pc = "classify"
  /\ output' = Alloc(classifyError(input), 2)
  /\ pc' = IF classifyError(input).cls = "TypeError" THEN "threw" ELSE "classified"
  /\ UNCHANGED <<config, viaClient, attempt, lastError, calls, log, result, input,
                 reclassified, retryable, convVars, costVars>>

\* classifyError(classifyError(input))
Reclassify ==
  /\ pc = "classified"
  /\ reclassified = Undefined
  /\ reclassified' = Alloc(classifyError(output), 3)
  /\ UNCHANGED <<config, viaClient, pc, attempt, lastError, calls, log, result,
                 input, output, retryable, convVars, costVars>>

\* isRetryable(classifyError(input))
CheckRetryable ==
  /\ pc = "classified"
  /\ retryable = {}
  /\ retryable' = {isRetryable(output)}
  /\ UNCHANGED <<config, viaClient, pc, attempt, lastError, calls, log, result,
                 input, output, reclassified, convVars, costVars>>

NextClassify ==
  /\ UNCHANGED appVars
  /\ UNCHANGED procVars
  /\ \/ Classify
     \/ Reclassify
     \/ CheckRetryable

SpecClassify == InitClassify /\ [][NextClassify]_vars

----------------------------------------------------------------------------
(* lib/conversation.ts and the session files of utils/storage.ts *)

Max(a, b) == IF a >= b THEN a ELSE b

\* the role and content arguments of addMessage
Inputs == {<<"user", "a">>, <<"assistant", "b">>}

\* two consecutive reads of Date.now(), the clock never running backwards
ClockReads == {t \in (now..MaxClock) \X (now..MaxClock) : t[1] <= t[2]}

\* Array.prototype.slice(start): a negative start counts from the end, and
\* -0 is 0
slice(arr, start) ==
  LET len == Len(arr)
      from == IF start < 0 THEN Max(len + start, 0) ELSE Min(start, len)
  IN SubSeq(arr, from + 1, len)

createNewConversation_backdated(id, t1, t2) ==
  [id |-> id, messages |-> << >>, createdAt |-> t2, updatedAt |-> t1]

\* { id: crypto.randomUUID(), messages: [], createdAt: Date.now(), updatedAt: Date.now() }
createNewConversation(id, t1, t2) ==
  [id |-> id, messages |-> << >>, createdAt |-> t1, updatedAt |-> t2]

\* JSON.stringify(conversation, null, 2)
stringify(c) ==
  << c.id,
     [i \in 1..Len(c.messages) |->
        <<c.messages[i].role, c.messages[i].content, c.messages[i].timestamp>>],
     c.createdAt, c.updatedAt >>

\* a parse that returns the messages newest first
parse_newestFirst(data) ==
  [id |-> data[1],
   messages |-> [i \in 1..Len(data[2]) |->
                   LET m == data[2][Len(data[2]) + 1 - i] IN
                   [role |-> m[1], content |-> m[2], timestamp |-> m[3]]],
   createdAt |-> data[3], updatedAt |-> data[4]]

\* JSON.parse(data)
parse(data) ==
  [id |-> data[1],
   messages |-> [i \in 1..Len(data[2]) |->
                   [role |-> data[2][i][1], content |-> data[2][i][2],
                    timestamp |-> data[2][i][3]]],
   createdAt |-> data[3], updatedAt |-> data[4]]

\* loadSession(sessionId): {} is null
loadSession(fs, sessionId) ==
  IF sessionId \notin DOMAIN fs \/ fs[sessionId] = {} THEN {}
  ELSE LET c == parse(The(fs[sessionId])) IN
       IF c.id = 0 THEN {} ELSE {c}

\* saveSession(conversation): the file sessions/<id>.json after the rename
saveSession(fs, c) == [fs EXCEPT ![c.id] = {stringify(c)}]

Call(op, role, content, sessionId) ==
  [op |-> op, role |-> role, content |-> content, sessionId |-> sessionId]

getMessages_oldestFirst(msgs, h) ==
  IF ~h.enabled THEN slice(msgs, -1)
  ELSE SubSeq(msgs, 1, Min(Max(h.maxMessages, 0), Len(msgs)))

getMessages_everything(msgs, h) ==
  IF ~h.enabled THEN msgs
  ELSE slice(msgs, -h.maxMessages)

\* the array returned by getMessages()
getMessages(msgs, h) ==
  IF ~h.enabled THEN slice(msgs, -1)
  ELSE slice(msgs, -h.maxMessages)

\* new ConversationManager(historyConfig): a process starts a conversation
NewManager ==
  /\ nextId <= MaxIds
  /\ \E t \in ClockReads :
       /\ conversation' = createNewConversation(nextId, t[1], t[2])
       /\ now' = t[2]
  /\ nextId' = nextId + 1
  /\ returned' = << >>
  /\ lastCall' = Call("new", "", "", 0)
  /\ UNCHANGED <<history, files>>

\* new ConversationManager(historyConfig, sessionId): --resume <sessionId>
Resume(sessionId) ==
  /\ LET loaded == loadSession(files, sessionId) IN
     IF loaded # {}
       THEN /\ conversation' = The(loaded)
            /\ UNCHANGED <<now, nextId>>
       ELSE /\ nextId <= MaxIds
            /\ \E t \in ClockReads :
                 /\ conversation' = createNewConversation(nextId, t[1], t[2])
                 /\ now' = t[2]
            /\ nextId' = nextId + 1
  /\ returned' = << >>
  /\ lastCall' = Call("resume", "", "", sessionId)
  /\ UNCHANGED <<history, files>>

addMessage_prepends(role, content) ==
  /\ \E t \in ClockReads :
       /\ conversation' =
            [conversation EXCEPT
               !.messages = <<[role |-> role, content |-> content, timestamp |-> t[1]]>> \o @,
               !.updatedAt = t[2]]
       /\ now' = t[2]
  /\ returned' = << >>
  /\ lastCall' = Call("addMessage", role, content, 0)
  /\ UNCHANGED <<history, nextId, files>>

\* the conversation after messages.push({role, content, timestamp: t1}) and
\* updatedAt = t2
pushMessage(c, role, content, t1, t2) ==
  [c EXCEPT !.messages = Append(@, [role |-> role, content |-> content,
                                    timestamp |-> t1]),
            !.updatedAt = t2]

\* addMessage(role, content)
addMessage(role, content) ==
  /\ \E t \in ClockReads :
       /\ conversation' = pushMessage(conversation, role, content, t[1], t[2])
       /\ now' = t[2]
  /\ returned' = << >>
  /\ lastCall' = Call("addMessage", role, content, 0)
  /\ UNCHANGED <<history, nextId, files>>

GetMessages_truncates ==
  /\ returned' = getMessages(conversation.messages, history)
  /\ conversation' = [conversation EXCEPT !.messages = returned']
  /\ lastCall' = Call("getMessages", "", "", 0)
  /\ UNCHANGED <<history, now, nextId, files>>

\* getMessages()
GetMessages ==
  /\ returned' = getMessages(conversation.messages, history)
  /\ lastCall' = Call("getMessages", "", "", 0)
  /\ UNCHANGED <<history, conversation, now, nextId, files>>

\* getSessionId()
getSessionId ==
  /\ returned' = <<conversation.id>>
  /\ lastCall' = Call("getSessionId", "", "", 0)
  /\ UNCHANGED <<history, conversation, now, nextId, files>>

\* reset()
reset ==
  /\ nextId <= MaxIds
  /\ \E t \in ClockReads :
       /\ conversation' = createNewConversation(nextId, t[1], t[2])
       /\ now' = t[2]
  /\ nextId' = nextId + 1
  /\ returned' = << >>
  /\ lastCall' = Call("reset", "", "", 0)
  /\ UNCHANGED <<history, files>>

\* save()
save ==
  /\ \/ files[conversation.id] # {}
     \/ Cardinality({i \in DOMAIN files : files[i] # {}}) < MaxFiles
  /\ files' = IF Len(conversation.messages) > 0
                THEN saveSession(files, conversation) ELSE files
  /\ returned' = << >>
  /\ lastCall' = Call("save", "", "", 0)
  /\ UNCHANGED <<history, conversation, now, nextId>>

RetryUnused ==
  /\ config = DEFAULT_CONFIG.retry
  /\ viaClient = FALSE
  /\ pc = "conversation"
  /\ attempt = 0
  /\ lastError = Undefined
  /\ calls = 0
  /\ log = << >>
  /\ result = Pending
  /\ input = Undefined
  /\ output = Undefined
  /\ reclassified = Undefined
  /\ retryable = {}

\* chatCommand: loadConfig, no session file yet, and the first manager
InitConv ==
  /\ RetryUnused
  /\ CostTrackerUnused
  /\ CommandUnused
  /\ ProcessUnused
  /\ \E rawConfig \in RawConfigFiles : history = loadConfig(rawConfig).history
  /\ files = [i \in 1..MaxIds |-> {}]
  /\ \E t \in (0..MaxClock) \X (0..MaxClock) :
       /\ t[1] <= t[2]
       /\ conversation = createNewConversation(1, t[1], t[2])
       /\ now = t[2]
  /\ nextId = 2
  /\ returned = << >>
  /\ lastCall = Call("new", "", "", 0)

retryAndClassifyVars ==
  <<config, viaClient, pc, attempt, lastError, calls, log, result, input, output,
    reclassified, retryable>>

\* one ConversationManager in memory
NextConv ==
  /\ UNCHANGED retryAndClassifyVars
  /\ UNCHANGED appVars
  /\ UNCHANGED procVars
  /\ UNCHANGED costVars
  /\ \/ /\ Len(conversation.messages) < MaxLen
        /\ \E in \in Inputs : addMessage(in[1], in[2])
     \/ GetMessages
     \/ getSessionId
     \/ reset

SpecConv == InitConv /\ [][NextConv]_vars

\* chat sessions of successive processes over the sessions directory
InitSession ==
  /\ InitConv
  /\ history = DEFAULT_CONFIG.history

NextSession ==
  /\ UNCHANGED retryAndClassifyVars
  /\ UNCHANGED appVars
  /\ UNCHANGED procVars
  /\ UNCHANGED costVars
  /\ \/ NewManager
     \/ \E sessionId \in 1..MaxIds : Resume(sessionId)
     \/ /\ Len(conversation.messages) < MaxSessionLen
        /\ \E in \in Inputs : addMessage(in[1], in[2])
     \/ reset
     \/ save

SpecSession == InitSession /\ [][NextSession]_vars

----------------------------------------------------------------------------
(* lib/cost-tracker.ts, calculateUsage of lib/anthropic-client.ts and the   *)
(* stats file of utils/storage.ts.  Money is counted in 10^-6 USD, so that  *)
(* the cost of one token is a whole number for every rate of the table.     *)

PerThousand == 1000

\* config.pricing: rates per 1k tokens
SonnetPricing == [inputPer1k |-> 3000, outputPer1k |-> 15000]
HaikuPricing == [inputPer1k |-> 1000, outputPer1k |-> 5000]
OpusPricing == [inputPer1k |-> 5000, outputPer1k |-> 25000]

\* response.usage.input_tokens and output_tokens
TokenCounts == {<<1000, 2000>>, <<1, 0>>}

usageStats_outputAtInputRate(inputTokens, outputTokens, pricing) ==
  LET inputCost == (inputTokens * pricing.inputPer1k) \div PerThousand
      outputCost == (outputTokens * pricing.inputPer1k) \div PerThousand
  IN [inputTokens |-> inputTokens, outputTokens |-> outputTokens,
      inputCost |-> inputCost, outputCost |-> outputCost,
      totalCost |-> inputCost + outputCost]

\* the record calculateUsage returns when the model has a pricing entry
usageStats(inputTokens, outputTokens, pricing) ==
  LET inputCost == (inputTokens * pricing.inputPer1k) \div PerThousand
      outputCost == (outputTokens * pricing.outputPer1k) \div PerThousand
  IN [inputTokens |-> inputTokens, outputTokens |-> outputTokens,
      inputCost |-> inputCost, outputCost |-> outputCost,
      totalCost |-> inputCost + outputCost]

\* the UsageStats records a CostTracker is handed
UsageRecords ==
  {usageStats(t[1], t[2], SonnetPricing) : t \in TokenCounts}

\* JSON.stringify({ ...stats, lastUpdated: Date.now() }, null, 2)
stringifyStats(st, t) ==
  <<st.totalInputTokens, st.totalOutputTokens, st.totalCost, st.requestCount, t>>

\* JSON.parse(data) of a stats file
parseStats(data) ==
  [totalInputTokens |-> data[1], totalOutputTokens |-> data[2],
   totalCost |-> data[3], requestCount |-> data[4], lastUpdated |-> {data[5]}]

\* loadStats(): {} is null
loadStats(file) == IF file = {} THEN {} ELSE {parseStats(The(file))}

\* saveStats(stats): stats.json after the rename
saveStats(st, t) == {stringifyStats(st, t)}

CostCall(op, usage) == [op |-> op, usage |-> usage]

\* new CostTracker(loadPersisted)
CostTracker_new(loadPersisted) ==
  /\ LET persistedStats == IF loadPersisted THEN loadStats(statsFile) ELSE {} IN
       stats' = IF persistedStats # {} THEN The(persistedStats) ELSE ZeroStats
  /\ base' = stats'
  /\ usages' = << >>
  /\ costCall' = CostCall("new", NoUsage)
  /\ UNCHANGED <<statsFile, now>>

addUsage_inputCostOnly(usage) ==
  [stats EXCEPT !.totalInputTokens = @ + usage.inputTokens,
                !.totalOutputTokens = @ + usage.outputTokens,
                !.totalCost = @ + usage.inputCost,
                !.requestCount = @ + 1]

\* the stats after addUsage(usage)
addUsage(usage) ==
  [stats EXCEPT !.totalInputTokens = @ + usage.inputTokens,
                !.totalOutputTokens = @ + usage.outputTokens,
                !.totalCost = @ + usage.totalCost,
                !.requestCount = @ + 1]

\* costTracker.addUsage(usage)
CostTracker_addUsage(usage) ==
  /\ stats' = addUsage(usage)
  /\ usages' = Append(usages, usage)
  /\ costCall' = CostCall("addUsage", usage)
  /\ UNCHANGED <<statsFile, base, now>>

\* getStats(): a copy of the stats
CostTracker_getStats ==
  /\ costCall' = CostCall("getStats", NoUsage)
  /\ UNCHANGED <<stats, statsFile, base, usages, now>>

\* formatUsage(usage)
CostTracker_formatUsage(usage) ==
  /\ costCall' = CostCall("formatUsage", usage)
  /\ UNCHANGED <<stats, statsFile, base, usages, now>>

\* formatStats()
CostTracker_formatStats ==
  /\ costCall' = CostCall("formatStats", NoUsage)
  /\ UNCHANGED <<stats, statsFile, base, usages, now>>

resetStats_keepsCount ==
  [stats EXCEPT !.totalInputTokens = 0, !.totalOutputTokens = 0, !.totalCost = 0]

\* the stats after reset(): the four counters are assigned 0
resetStats ==
  [stats EXCEPT !.totalInputTokens = 0, !.totalOutputTokens = 0,
                !.totalCost = 0, !.requestCount = 0]

\* costTracker.reset()
CostTracker_reset ==
  /\ stats' = resetStats
  /\ base' = [ZeroStats EXCEPT !.lastUpdated = stats.lastUpdated]
  /\ usages' = << >>
  /\ costCall' = CostCall("reset", NoUsage)
  /\ UNCHANGED <<statsFile, now>>

\* costTracker.persist()
CostTracker_persist ==
  /\ \E t \in now..MaxClock :
       /\ statsFile' = saveStats(stats, t)
       /\ now' = t
  /\ costCall' = CostCall("persist", NoUsage)
  /\ UNCHANGED <<stats, base, usages>>

convVarsButClock == <<history, conversation, returned, lastCall, nextId, files>>

\* a process constructs its CostTracker over an empty ~/.ai-client
InitCost ==
  /\ RetryUnused
  /\ ConversationUnused
  /\ CostTrackerUnused
  /\ CommandUnused
  /\ ProcessUnused

NextCost ==
  /\ UNCHANGED retryAndClassifyVars
  /\ UNCHANGED appVars
  /\ UNCHANGED procVars
  /\ UNCHANGED convVarsButClock
  /\ \/ \E loadPersisted \in BOOLEAN : CostTracker_new(loadPersisted)
     \/ /\ stats.requestCount < MaxRequests
        /\ \E usage \in UsageRecords : CostTracker_addUsage(usage)
     \/ CostTracker_getStats
     \/ \E usage \in UsageRecords : CostTracker_formatUsage(usage)
     \/ CostTracker_formatStats
     \/ CostTracker_reset
     \/ CostTracker_persist

SpecCost == InitCost /\ [][NextCost]_vars

----------------------------------------------------------------------------
(* commands/ask.ts and components/ChatApp.tsx: one request at a time, over  *)
(* AnthropicClient.sendMessage, the CostTracker and the ConversationManager *)

DefaultModel == "claude-sonnet-4-5-20250929"
HaikuModel == "claude-haiku-4-5-20251001"
UnknownModel == "unknown-model"

\* config.defaultModel with config.pricing[config.defaultModel]
ClientConfigs ==
  { [defaultModel |-> DefaultModel, pricing |-> {SonnetPricing}],
    [defaultModel |-> HaikuModel, pricing |-> {HaikuPricing}],
    [defaultModel |-> UnknownModel, pricing |-> {}] }

\* responses of client.messages.create: first text block and usage
Responses ==
  {[text |-> "b", inputTokens |-> t[1], outputTokens |-> t[2]] : t \in TokenCounts}

\* failures of client.messages.create, one retry-eligible and one not
RequestFailures ==
  { RawFailure({429}, {}, {}, {"Too many requests"}),
    RawFailure({401}, {}, {}, {"invalid x-api-key"}) }

\* new Error(`Pricing not configured for model: ${this.config.defaultModel}`)
PricingError(model) ==
  RawFailure({}, {}, {}, {"Pricing not configured for model: " \o model})

\* calculateUsage(inputTokens, outputTokens): the record returned, or the
\* error thrown
calculateUsage(inputTokens, outputTokens, cfg) ==
  IF cfg.pricing = {}
    THEN [threw |-> {classifyError(PricingError(cfg.defaultModel))}, usage |-> NoUsage]
    ELSE [threw |-> {},
          usage |-> usageStats(inputTokens, outputTokens, The(cfg.pricing))]

\* client.messages.create resolves inside sendMessage's operation: the
\* operation returns {content, usage}, or calculateUsage throws into the
\* operation's own catch block
RemoteResolves(response) ==
  /\ pc = "await"
  /\ viaClient
  /\ LET computed == calculateUsage(response.inputTokens, response.outputTokens, client) IN
     IF computed.threw # {}
       THEN /\ Caught([PricingError(client.defaultModel) EXCEPT !.oid = calls],
                      operation(The(computed.threw)))
            /\ reply' = reply
       ELSE /\ OpResolves("data")
            /\ reply' = {[content |-> response.text, usage |-> computed.usage,
                          response |-> response]}
  /\ UNCHANGED <<client, front, handler, isLoading, before>>

\* the withRetry call is over and its frame is gone
RetryFrameDropped ==
  /\ pc' = "idle"
  /\ viaClient' = FALSE
  /\ attempt' = 0
  /\ lastError' = Undefined
  /\ calls' = 0
  /\ log' = << >>
  /\ result' = Pending
  /\ UNCHANGED <<config, input, output, reclassified, retryable>>

Snapshot == [stats |-> stats, statsFile |-> statsFile]

\* askCommand up to `await client.sendMessage(...)`
Ask ==
  /\ front = "ask"
  /\ handler = "idle"
  /\ callSendMessage
  /\ handler' = "awaiting"
  /\ before' = Snapshot
  /\ UNCHANGED <<client, reply, front, isLoading>>
  /\ UNCHANGED <<convVars, costVars>>

\* askCommand after the await: addUsage, persist, process.exit(0)
AskResolved ==
  /\ front = "ask"
  /\ handler = "awaiting"
  /\ pc = "resolved"
  /\ LET usage == The(reply).usage IN
       /\ stats' = addUsage(usage)
       /\ usages' = Append(usages, usage)
       /\ \E t \in now..MaxClock :
            /\ statsFile' = saveStats(addUsage(usage), t)
            /\ now' = t
  /\ costCall' = CostCall("persist", NoUsage)
  /\ handler' = "exited"
  /\ UNCHANGED base
  /\ UNCHANGED <<client, reply, front, isLoading, before>>
  /\ UNCHANGED retryAndClassifyVars
  /\ UNCHANGED convVarsButClock

\* askCommand's catch block: the message is printed, process.exit(1)
AskRejected ==
  /\ front = "ask"
  /\ handler = "awaiting"
  /\ pc = "rejected"
  /\ handler' = "exited"
  /\ UNCHANGED <<client, reply, front, isLoading, before>>
  /\ UNCHANGED retryAndClassifyVars
  /\ UNCHANGED <<convVars, costVars>>

\* handleSubmit with a message: addMessage('user', ...), setIsLoading(true),
\* up to `await client.sendMessage(conversationManager.getMessages(), ...)`
Submit(text) ==
  /\ front = "chat"
  /\ handler = "idle"
  /\ ~isLoading
  /\ addMessage("user", text)
  /\ callSendMessage
  /\ handler' = "awaiting"
  /\ isLoading' = TRUE
  /\ before' = Snapshot
  /\ UNCHANGED <<client, reply, front>>
  /\ UNCHANGED costVars

SubmitResolved_persistsFirst ==
  /\ front = "chat"
  /\ handler = "awaiting"
  /\ pc \in {"resolved", "rejected"}
  /\ \E t \in now..MaxClock :
       /\ statsFile' = saveStats(stats, t)
       /\ now' = t
  /\ costCall' = CostCall("persist", NoUsage)
  /\ handler' = "idle"
  /\ isLoading' = FALSE
  /\ reply' = {}
  /\ RetryFrameDropped
  /\ UNCHANGED <<stats, base, usages>>
  /\ UNCHANGED <<client, front, before>>
  /\ UNCHANGED convVarsButClock

SubmitResolved_savesBeforeReply ==
  /\ front = "chat"
  /\ handler = "awaiting"
  /\ pc = "resolved"
  /\ LET usage == The(reply).usage IN
     \E t \in ClockReads : \E t3 \in t[2]..MaxClock :
       /\ conversation' = pushMessage(conversation, "assistant", The(reply).content, t[1], t[2])
       /\ stats' = addUsage(usage)
       /\ usages' = Append(usages, usage)
       /\ statsFile' = saveStats(addUsage(usage), t3)
       /\ files' = saveSession(files, conversation)
       /\ now' = t3
  /\ returned' = << >>
  /\ lastCall' = Call("save", "", "", 0)
  /\ costCall' = CostCall("persist", NoUsage)
  /\ handler' = "idle"
  /\ isLoading' = FALSE
  /\ reply' = {}
  /\ RetryFrameDropped
  /\ UNCHANGED <<history, nextId, base>>
  /\ UNCHANGED <<client, front, before>>

\* handleSubmit after the await: addMessage('assistant', content), addUsage,
\* persist, save, and the finally block
SubmitResolved ==
  /\ front = "chat"
  /\ handler = "awaiting"
  /\ pc = "resolved"
  /\ LET usage == The(reply).usage IN
     \E t \in ClockReads : \E t3 \in t[2]..MaxClock :
       LET saved == pushMessage(conversation, "assistant", The(reply).content, t[1], t[2]) IN
       /\ conversation' = saved
       /\ stats' = addUsage(usage)
       /\ usages' = Append(usages, usage)
       /\ statsFile' = saveStats(addUsage(usage), t3)
       /\ files' = saveSession(files, saved)
       /\ now' = t3
  /\ returned' = << >>
  /\ lastCall' = Call("save", "", "", 0)
  /\ costCall' = CostCall("persist", NoUsage)
  /\ handler' = "idle"
  /\ isLoading' = FALSE
  /\ reply' = {}
  /\ RetryFrameDropped
  /\ UNCHANGED <<history, nextId, base>>
  /\ UNCHANGED <<client, front, before>>

\* handleSubmit's catch and finally blocks: setError, setIsLoading(false)
SubmitRejected ==
  /\ front = "chat"
  /\ handler = "awaiting"
  /\ pc = "rejected"
  /\ handler' = "idle"
  /\ isLoading' = FALSE
  /\ RetryFrameDropped
  /\ UNCHANGED <<client, reply, front, before>>
  /\ UNCHANGED <<convVars, costVars>>

\* stats.json as earlier invocations left it
EarlierStatsFiles ==
  {{}} \cup {saveStats([ZeroStats EXCEPT !.totalInputTokens = u.inputTokens,
                                         !.totalOutputTokens = u.outputTokens,
                                         !.totalCost = u.totalCost,
                                         !.requestCount = 1], 0) :
             u \in {usageStats(1, 0, HaikuPricing)}}

\* the retry policies of config files that set retry.maxRetries at most
RequestPolicies ==
  {loadConfig(rawConfig).retry :
     rawConfig \in {r \in RawConfigFiles :
                      r.retry.baseDelayMs = {} /\ r.retry.maxDelayMs = {}}}

\* `ai ask` or `ai chat` has started: loadConfig, new AnthropicClient(config),
\* new ConversationManager(config.history), new CostTracker(true)
InitRequest ==
  /\ config \in RequestPolicies
  /\ viaClient = FALSE
  /\ pc = "idle"
  /\ attempt = 0
  /\ lastError = Undefined
  /\ calls = 0
  /\ log = << >>
  /\ result = Pending
  /\ input = Undefined
  /\ output = Undefined
  /\ reclassified = Undefined
  /\ retryable = {}
  /\ history = DEFAULT_CONFIG.history
  /\ files = [i \in 1..MaxIds |-> {}]
  /\ now = 0
  /\ conversation = createNewConversation(1, 0, 0)
  /\ nextId = 2
  /\ returned = << >>
  /\ lastCall = Call("new", "", "", 0)
  /\ statsFile \in EarlierStatsFiles
  /\ stats = IF loadStats(statsFile) # {} THEN The(loadStats(statsFile)) ELSE ZeroStats
  /\ base = stats
  /\ usages = << >>
  /\ costCall = CostCall("new", NoUsage)
  /\ client \in ClientConfigs
  /\ reply = {}
  /\ front \in {"ask", "chat"}
  /\ handler = "idle"
  /\ isLoading = FALSE
  /\ before = NoSnapshot
  /\ ProcessUnused

NextRequest ==
  /\ UNCHANGED procVars
  /\ \/ Ask
     \/ AskResolved
     \/ AskRejected
     \/ /\ Len(conversation.messages) + 2 <= MaxLen
        /\ stats.requestCount < MaxRequests
        /\ Submit("a")
     \/ SubmitResolved
     \/ SubmitRejected
     \/ /\ \E response \in Responses : RemoteResolves(response)
     \/ /\ \E e \in RequestFailures : OpRejects(e)
        /\ UNCHANGED appVars
     \/ /\ TimerFires
        /\ UNCHANGED appVars

SpecRequest == InitRequest /\ [][NextRequest]_vars

----------------------------------------------------------------------------
(* saveStats and saveSession of utils/storage.ts, one file-system call at a *)
(* time: a process may die between any two of them, a later one saves again *)

\* the SessionStats handed to saveStats
StoredStats ==
  {[ZeroStats EXCEPT !.totalInputTokens = u.inputTokens,
                     !.totalOutputTokens = u.outputTokens,
                     !.totalCost = u.totalCost,
                     !.requestCount = 1] : u \in UsageRecords}

\* the conversations handed to saveSession
StoredConversations ==
  {[createNewConversation(id, 0, 0) EXCEPT
      !.messages = [i \in 1..n |->
                      IF i % 2 = 1
                        THEN [role |-> "user", content |-> "a", timestamp |-> 0]
                        ELSE [role |-> "assistant", content |-> "b", timestamp |-> 0]]] :
     id \in 1..MaxFiles, n \in 1..MaxSessionLen}

TempOf(s) == IF s.fn = "saveStats" THEN statsTmp ELSE sessionTmp[s.id]

SetTemp(s, content) ==
  IF s.fn = "saveStats"
    THEN statsTmp' = content /\ UNCHANGED sessionTmp
    ELSE sessionTmp' = [sessionTmp EXCEPT ![s.id] = content] /\ UNCHANGED statsTmp

storeOtherVars ==
  <<retryAndClassifyVars, appVars, history, conversation, returned, lastCall,
    nextId, stats, base, usages, costCall, lines, totals, aborted, moreVars>>

\* saveStats(stats) up to `const data = JSON.stringify(...)`
saveStats_begin ==
  /\ saving.at \in {"none", "crashed"}
  /\ \E st \in StoredStats :
       saving' = [fn |-> "saveStats", id |-> 0, data |-> stringifyStats(st, now),
                  at |-> "open"]
  /\ UNCHANGED <<statsFile, files, statsTmp, sessionTmp, now>>

\* saveSession(conversation) up to `const data = JSON.stringify(...)`
saveSession_begin ==
  /\ saving.at \in {"none", "crashed"}
  /\ \E c \in StoredConversations :
       saving' = [fn |-> "saveSession", id |-> c.id, data |-> stringify(c),
                  at |-> "open"]
  /\ UNCHANGED <<statsFile, files, statsTmp, sessionTmp, now>>

\* a save that opens its target instead of the temp file
writeFileSync_open_inPlace ==
  /\ saving.at = "open"
  /\ SetTemp(saving, {<< >>})
  /\ IF saving.fn = "saveStats"
       THEN statsFile' = {<< >>} /\ UNCHANGED files
       ELSE files' = [files EXCEPT ![saving.id] = {<< >>}] /\ UNCHANGED statsFile
  /\ saving' = [saving EXCEPT !.at = "write"]
  /\ UNCHANGED now

\* fs.writeFileSync(tempFile, data): the temp file is created or truncated
writeFileSync_open ==
  /\ saving.at = "open"
  /\ SetTemp(saving, {<< >>})
  /\ saving' = [saving EXCEPT !.at = "write"]
  /\ UNCHANGED <<statsFile, files, now>>

\* what the file holds when the first of the two pieces of data is written
FirstPiece(data) == SubSeq(data, 1, Len(data) \div 2)

\* fs.writeFileSync(tempFile, data): the next piece of data reaches the file
writeFileSync_write ==
  /\ saving.at = "write"
  /\ LET written == The(TempOf(saving))
         next == IF written = << >> THEN FirstPiece(saving.data) ELSE saving.data
     IN /\ SetTemp(saving, {next})
        /\ saving' = [saving EXCEPT
                        !.at = IF next = saving.data THEN "rename" ELSE "write"]
  /\ UNCHANGED <<statsFile, files, now>>

\* fs.renameSync(tempFile, target)
renameSync ==
  /\ saving.at = "rename"
  /\ IF saving.fn = "saveStats"
       THEN /\ statsFile' = statsTmp
            /\ statsTmp' = {}
            /\ UNCHANGED <<files, sessionTmp>>
       ELSE /\ files' = [files EXCEPT ![saving.id] = sessionTmp[saving.id]]
            /\ sessionTmp' = [sessionTmp EXCEPT ![saving.id] = {}]
            /\ UNCHANGED <<statsFile, statsTmp>>
  /\ saving' = NotSaving
  /\ UNCHANGED now

\* a file-system call throws (disk full, permissions): the catch block logs
SaveThrows ==
  /\ saving.at \in {"open", "write", "rename"}
  /\ saving' = NotSaving
  /\ UNCHANGED <<statsFile, files, statsTmp, sessionTmp, now>>

\* the process dies in the middle of the save; the files stay as they are
Crash ==
  /\ saving.at \in {"open", "write", "rename"}
  /\ saving' = [saving EXCEPT !.at = "crashed"]
  /\ UNCHANGED <<statsFile, files, statsTmp, sessionTmp, now>>

\* ~/.ai-client after ensureDirectories, before the first save
InitStore ==
  /\ RetryUnused
  /\ CostTrackerUnused
  /\ CommandUnused
  /\ history = DEFAULT_CONFIG.history
  /\ conversation = NoConversation
  /\ now = 0
  /\ returned = << >>
  /\ lastCall = NoCall
  /\ nextId = 1
  /\ files = [i \in 1..MaxFiles |-> {}]
  /\ statsTmp = {}
  /\ sessionTmp = [i \in 1..MaxFiles |-> {}]
  /\ saving = NotSaving
  /\ lines = << >>
  /\ totals = ZeroTotals
  /\ aborted = "no"
  /\ MoreUnused

NextStore ==
  /\ UNCHANGED storeOtherVars
  /\ \/ saveStats_begin
     \/ saveSession_begin
     \/ writeFileSync_open
     \/ writeFileSync_write
     \/ renameSync
     \/ SaveThrows
     \/ Crash

SpecStore == InitStore /\ [][NextStore]_vars

----------------------------------------------------------------------------
(* commands/chat.ts, the readline loop: rl.on('line', async (input) => ...) *)
(* starts a handler for every line read, also while earlier handlers are    *)
(* suspended at `await client.sendMessage(...)`                             *)

Remove(seq, i) == SubSeq(seq, 1, i - 1) \o SubSeq(seq, i + 1, Len(seq))

\* a line of text: addMessage('user', userInput), then the handler suspends
\* at the await (the remote call and the retry delays are inside it)
LineMessage(text) ==
  /\ addMessage("user", text)
  /\ lines' = Append(lines, [sentIn |-> conversation.id])
  /\ UNCHANGED totals

\* the line /reset
LineReset ==
  /\ reset
  /\ totals' = ZeroTotals
  /\ UNCHANGED lines

\* sendMessage resolves for the handler of an earlier line: the assistant's
\* message is appended and the session counters are updated
LineResolves(i, usage) ==
  /\ i \in DOMAIN lines
  /\ addMessage("assistant", "b")
  /\ totals' = [totals EXCEPT !.totalInputTokens = @ + usage.inputTokens,
                              !.totalOutputTokens = @ + usage.outputTokens,
                              !.totalCost = @ + usage.totalCost,
                              !.requestCount = @ + 1]
  /\ lines' = Remove(lines, i)

\* sendMessage rejects for the handler of an earlier line: the catch block
LineRejects(i) ==
  /\ i \in DOMAIN lines
  /\ lines' = Remove(lines, i)
  /\ UNCHANGED <<convVars, totals>>

InitLine ==
  /\ InitConv
  /\ history = DEFAULT_CONFIG.history

NextLine ==
  /\ UNCHANGED retryAndClassifyVars
  /\ UNCHANGED appVars
  /\ UNCHANGED costVars
  /\ UNCHANGED <<statsTmp, sessionTmp, saving, aborted, moreVars>>
  /\ \/ /\ Len(conversation.messages) + Len(lines) + 2 <= MaxLen
        /\ LineMessage("a")
     \/ LineReset
     \/ \E i \in DOMAIN lines, usage \in UsageRecords : LineResolves(i, usage)
     \/ \E i \in DOMAIN lines : LineRejects(i)

SpecLine == InitLine /\ [][NextLine]_vars

----------------------------------------------------------------------------
(* the user aborts while withRetry waits out a delay.  askCommand has no    *)
(* SIGINT handler: the signal ends the process.  The Ink application reads  *)
(* Ctrl+C as input and unmounts; chatCommand never calls process.exit, so   *)
(* the process lives on while timers or requests are pending.  A signal     *)
(* sent from outside ends it at once.                                       *)

AbortOutcomes == IF front = "chat" THEN {"killed", "unmounted"} ELSE {"killed"}

Abort ==
  /\ aborted = "no"
  /\ handler = "awaiting"
  /\ pc = "sleep"
  /\ aborted' \in AbortOutcomes
  /\ UNCHANGED <<retryAndClassifyVars, convVars, costVars, appVars>>
  /\ UNCHANGED <<statsTmp, sessionTmp, saving, lines, totals, moreVars>>

NextAbort ==
  \/ /\ aborted # "killed"
     /\ NextRequest
  \/ Abort

SpecAbort == InitRequest /\ [][NextAbort]_vars

----------------------------------------------------------------------------
(* the API key of loadConfig (lib/config.ts).  A string is the sequence of  *)
(* its characters, so that startsWith and slice do what they do.            *)

EnvPrefix == <<"e", "n", "v", ":">>
ANTHROPIC_API_KEY ==
  <<"A", "N", "T", "H", "R", "O", "P", "I", "C", "_", "A", "P", "I", "_", "K", "E", "Y">>
MY_API_KEY == <<"M", "Y", "_", "A", "P", "I", "_", "K", "E", "Y">>

\* str.startsWith(prefix)
startsWith(str, prefix) ==
  Len(str) >= Len(prefix) /\ SubSeq(str, 1, Len(prefix)) = prefix

\* !value: undefined and the empty string
Falsy(value) == value = {} \/ value = {<< >>}

\* process.env[name]
getenv(e, name) == IF name \in DOMAIN e THEN e[name] ELSE {}

Returned(apiKey) == [state |-> "returned", apiKey |-> apiKey, message |-> ""]
Threw(message) == [state |-> "threw", apiKey |-> << >>, message |-> message]

\* a loadConfig that falls back to ANTHROPIC_API_KEY for an unset env:VAR
resolveApiKey_fallsBack(apiKey, e) ==
  LET named == IF apiKey # {} /\ startsWith(The(apiKey), EnvPrefix)
                 THEN getenv(e, slice(The(apiKey), 4))
                 ELSE apiKey
      key == IF Falsy(named) /\ ~Falsy(getenv(e, ANTHROPIC_API_KEY))
               THEN getenv(e, ANTHROPIC_API_KEY) ELSE named
  IN IF Falsy(key) THEN Threw("API key not found") ELSE Returned(The(key))

\* loadConfig from `if (config.apiKey?.startsWith('env:'))` to its return
resolveApiKey(apiKey, e) ==
  IF apiKey # {} /\ startsWith(The(apiKey), EnvPrefix)
    THEN LET envVar == slice(The(apiKey), 4)
             value == getenv(e, envVar)
         IN IF Falsy(value) THEN Threw("Environment variable is not set")
            ELSE Returned(The(value))
    ELSE LET key == IF Falsy(apiKey) /\ ~Falsy(getenv(e, ANTHROPIC_API_KEY))
                      THEN getenv(e, ANTHROPIC_API_KEY) ELSE apiKey
         IN IF Falsy(key) THEN Threw("API key not found") ELSE Returned(The(key))

\* the apiKey entries of config.json
RawApiKeys ==
  { {}, {<< >>}, {<<"s", "k">>}, {<<"e", "n", "v">>}, {EnvPrefix},
    {EnvPrefix \o MY_API_KEY}, {EnvPrefix \o ANTHROPIC_API_KEY},
    {EnvPrefix \o <<"M", "I", "S", "S", "I", "N", "G">>} }

\* the values of an environment variable: unset, empty, two keys
EnvValues == { {}, {<< >>}, {<<"s", "k", "1">>}, {<<"s", "k", "2">>} }

\* loadConfig()
LoadConfig ==
  /\ keyResult.state = "none"
  /\ keyResult' = resolveApiKey(rawApiKey, env)
  /\ UNCHANGED <<rawApiKey, env>>

\* the test or the shell sets a variable for the next loadConfig
SetEnv ==
  /\ keyResult.state # "none"
  /\ \E name \in DOMAIN env, value \in EnvValues :
       env' = [env EXCEPT ![name] = value]
  /\ keyResult' = NotLoaded
  /\ UNCHANGED rawApiKey

InitKey ==
  /\ RetryUnused
  /\ ConversationUnused
  /\ CostTrackerUnused
  /\ CommandUnused
  /\ statsTmp = {}
  /\ sessionTmp = << >>
  /\ saving = NotSaving
  /\ lines = << >>
  /\ totals = ZeroTotals
  /\ aborted = "no"
  /\ FsUnused
  /\ ChatUnused
  /\ rawApiKey \in RawApiKeys
  /\ env \in [{MY_API_KEY, ANTHROPIC_API_KEY} -> EnvValues]
  /\ keyResult = NotLoaded

NextKey ==
  /\ UNCHANGED <<retryAndClassifyVars, convVars, costVars, appVars>>
  /\ UNCHANGED <<statsTmp, sessionTmp, saving, lines, totals, aborted, fsVars, chatVars>>
  /\ \/ LoadConfig
     \/ SetEnv

SpecKey == InitKey /\ [][NextKey]_vars

----------------------------------------------------------------------------
(* saveStats run by two processes at once: both name the one temp file      *)
(* stats.json.tmp.  A path names an inode; an open file stays with its      *)
(* inode whatever the paths do; a write lands at the offset of the open     *)
(* file, over what the inode holds there.                                   *)

Processes == {1, 2}

\* a byte of a file that nothing has written
Hole == -1

Idle == [at |-> "idle", data |-> << >>, fd |-> 0, offset |-> 0]

\* write(fd, piece) at offset
pwrite(content, offset, piece) ==
  [i \in 1..Max(Len(content), offset + Len(piece)) |->
     IF i > offset /\ i <= offset + Len(piece) THEN piece[i - offset]
     ELSE IF i <= Len(content) THEN content[i]
     ELSE Hole]

\* saveStats(stats) up to `const data = JSON.stringify(...)`
Saver_begin(p) ==
  /\ writers[p].at = "idle"
  /\ \E st \in StoredStats, t \in 0..MaxClock :
       writers' = [writers EXCEPT ![p] = [Idle EXCEPT !.at = "open",
                                                     !.data = stringifyStats(st, t)]]
  /\ UNCHANGED <<inodes, paths>>

\* fs.writeFileSync(tempFile, data): open(tempFile, O_WRONLY | O_CREAT | O_TRUNC)
Saver_open(p) ==
  /\ writers[p].at = "open"
  /\ IF paths.temp # 0
       THEN /\ inodes' = [inodes EXCEPT ![paths.temp] = << >>]
            /\ writers' = [writers EXCEPT ![p].at = "write", ![p].fd = paths.temp]
            /\ UNCHANGED paths
       ELSE /\ inodes' = Append(inodes, << >>)
            /\ paths' = [paths EXCEPT !.temp = Len(inodes) + 1]
            /\ writers' = [writers EXCEPT ![p].at = "write", ![p].fd = Len(inodes) + 1]

\* fs.writeFileSync(tempFile, data): the next piece of data is written
Saver_write(p) ==
  /\ writers[p].at = "write"
  /\ LET w == writers[p]
         piece == IF w.offset = 0 THEN FirstPiece(w.data)
                  ELSE SubSeq(w.data, w.offset + 1, Len(w.data))
         end == w.offset + Len(piece)
     IN /\ inodes' = [inodes EXCEPT ![w.fd] = pwrite(@, w.offset, piece)]
        /\ writers' = [writers EXCEPT ![p].offset = end,
                                      ![p].at = IF end = Len(w.data) THEN "rename"
                                                ELSE "write"]
  /\ UNCHANGED paths

\* fs.renameSync(tempFile, STATS_FILE); ENOENT is caught and logged
Saver_rename(p) ==
  /\ writers[p].at = "rename"
  /\ paths' = IF paths.temp # 0 THEN [target |-> paths.temp, temp |-> 0] ELSE paths
  /\ writers' = [writers EXCEPT ![p].at = "done"]
  /\ UNCHANGED inodes

\* stats.json of earlier invocations or none, and two processes about to save
InitSavers ==
  /\ RetryUnused
  /\ ConversationUnused
  /\ CostTrackerUnused
  /\ CommandUnused
  /\ statsTmp = {}
  /\ sessionTmp = << >>
  /\ saving = NotSaving
  /\ lines = << >>
  /\ totals = ZeroTotals
  /\ aborted = "no"
  /\ KeyUnused
  /\ ChatUnused
  /\ \E earlier \in EarlierStatsFiles :
       IF earlier = {}
         THEN inodes = << >> /\ paths = [target |-> 0, temp |-> 0]
         ELSE inodes = <<The(earlier)>> /\ paths = [target |-> 1, temp |-> 0]
  /\ writers = [p \in Processes |-> Idle]

NextSavers ==
  /\ UNCHANGED <<retryAndClassifyVars, convVars, costVars, appVars>>
  /\ UNCHANGED <<statsTmp, sessionTmp, saving, lines, totals, aborted, keyVars, chatVars>>
  /\ \E p \in Processes :
       \/ Saver_begin(p)
       \/ Saver_open(p)
       \/ Saver_write(p)
       \/ Saver_rename(p)

SpecSavers == InitSavers /\ [][NextSavers]_vars

----------------------------------------------------------------------------
(* ChatApp of components/ChatApp.tsx, key event by key event, and the       *)
(* invocations of `ai chat` and `ai ask` that follow one another over the   *)
(* same ~/.ai-client                                                        *)

chatOtherVars == <<statsTmp, sessionTmp, saving, lines, totals, aborted, keyVars, fsVars>>

\* what the user may have typed into the input box
TypedTexts == {"", " ", "a", " a", "/reset", "/stats", "/exit"}

\* input.trim()
trim(text) ==
  CASE text = " " -> ""
    [] text = " a" -> "a"
    [] OTHER -> text

\* <TextInput value={input} onChange={setInput} />: the box is rendered
\* whether a request is loading or not
TextInput_onChange(text) ==
  /\ front = "chat"
  /\ handler \in {"idle", "awaiting"}
  /\ typed' = text
  /\ lastKey' = "char"
  /\ UNCHANGED <<sent, ledger>>
  /\ UNCHANGED chatOtherVars
  /\ UNCHANGED appVars
  /\ UNCHANGED retryAndClassifyVars
  /\ UNCHANGED <<convVars, costVars>>

\* handleSubmit past its first line: setInput(''), then /exit, /reset, the
\* commands that only print, or a message sent to the model
handleSubmit_accepted ==
  /\ typed' = ""
  /\ UNCHANGED ledger
  /\ CASE trim(typed) = "/exit" ->
            /\ handler' = "exited"
            /\ UNCHANGED <<client, reply, front, isLoading, before, sent>>
            /\ UNCHANGED retryAndClassifyVars
            /\ UNCHANGED <<convVars, costVars>>
       [] trim(typed) = "/reset" ->
            /\ reset
            /\ stats' = resetStats
            /\ base' = [ZeroStats EXCEPT !.lastUpdated = stats.lastUpdated]
            /\ usages' = << >>
            /\ costCall' = CostCall("reset", NoUsage)
            /\ UNCHANGED <<statsFile, sent>>
            /\ UNCHANGED appVars
            /\ UNCHANGED retryAndClassifyVars
       [] trim(typed) = "/stats" ->
            /\ UNCHANGED sent
            /\ UNCHANGED appVars
            /\ UNCHANGED retryAndClassifyVars
            /\ UNCHANGED <<convVars, costVars>>
       [] OTHER ->
            /\ Len(conversation.messages) + 2 <= MaxLen
            /\ Len(ledger) < MaxRequests
            /\ addMessage("user", trim(typed))
            /\ sent' = {getMessages(conversation'.messages, history)}
            /\ callSendMessage
            /\ handler' = "awaiting"
            /\ isLoading' = TRUE
            /\ before' = Snapshot
            /\ UNCHANGED <<client, reply, front>>
            /\ UNCHANGED costVars

handleSubmit_ignored ==
  /\ UNCHANGED <<typed, sent, ledger>>
  /\ UNCHANGED appVars
  /\ UNCHANGED retryAndClassifyVars
  /\ UNCHANGED <<convVars, costVars>>

handleSubmit_whileLoading ==
  /\ front = "chat"
  /\ handler \in {"idle", "awaiting"}
  /\ lastKey' = "return"
  /\ UNCHANGED chatOtherVars
  /\ IF trim(typed) = ""
       THEN handleSubmit_ignored
       ELSE handleSubmit_accepted

\* useInput: key.return calls handleSubmit, whose first line is
\* `if (!input.trim() || isLoading) return;`
handleSubmit ==
  /\ front = "chat"
  /\ handler \in {"idle", "awaiting"}
  /\ lastKey' = "return"
  /\ UNCHANGED chatOtherVars
  /\ IF trim(typed) = "" \/ isLoading
       THEN handleSubmit_ignored
       ELSE handleSubmit_accepted

\* the rest of handleSubmit once sendMessage has resolved
ChatResolved ==
  /\ SubmitResolved
  /\ ledger' = Append(ledger, The(reply).usage)
  /\ UNCHANGED <<typed, lastKey, sent>>
  /\ UNCHANGED chatOtherVars

ChatRejected ==
  /\ SubmitRejected
  /\ UNCHANGED chatVars
  /\ UNCHANGED chatOtherVars

\* `ai ask` over the same directory
ChatAsk ==
  /\ Len(ledger) < MaxRequests
  /\ Ask
  /\ UNCHANGED procVars

ChatAskResolved ==
  /\ AskResolved
  /\ ledger' = Append(ledger, The(reply).usage)
  /\ UNCHANGED <<typed, lastKey, sent>>
  /\ UNCHANGED chatOtherVars

ChatAskRejected ==
  /\ AskRejected
  /\ UNCHANGED procVars

\* the next invocation, once the one before has exited: a new process, with
\* new ConversationManager(config.history) for `ai chat`, new CostTracker(true)
Invoke(command) ==
  /\ handler = "exited"
  /\ front' = command
  /\ handler' = "idle"
  /\ isLoading' = FALSE
  /\ reply' = {}
  /\ before' = NoSnapshot
  /\ stats' = IF loadStats(statsFile) # {} THEN The(loadStats(statsFile)) ELSE ZeroStats
  /\ base' = stats'
  /\ usages' = << >>
  /\ costCall' = CostCall("new", NoUsage)
  /\ IF command = "chat"
       THEN /\ nextId <= MaxIds
            /\ \E t \in ClockReads :
                 /\ conversation' = createNewConversation(nextId, t[1], t[2])
                 /\ now' = t[2]
            /\ nextId' = nextId + 1
            /\ returned' = << >>
            /\ lastCall' = Call("new", "", "", 0)
            /\ UNCHANGED <<history, files>>
       ELSE UNCHANGED convVars
  /\ typed' = ""
  /\ lastKey' = "none"
  /\ sent' = {}
  /\ RetryFrameDropped
  /\ UNCHANGED <<ledger, statsFile, client>>
  /\ UNCHANGED chatOtherVars

\* retry.maxRetries: 1 in config.json
ChatPolicies == {p \in RequestPolicies : p.maxRetries = 1}

\* the history settings of config files that set history.enabled at most
ChatHistories ==
  {loadConfig(rawConfig).history :
     rawConfig \in {r \in RawConfigFiles : r.history.maxMessages = {}}}

\* the first invocation over an empty ~/.ai-client; the timestamps play no
\* part here, every Date.now() reads the same value
InitChat ==
  /\ config \in ChatPolicies
  /\ viaClient = FALSE
  /\ pc = "idle"
  /\ attempt = 0
  /\ lastError = Undefined
  /\ calls = 0
  /\ log = << >>
  /\ result = Pending
  /\ input = Undefined
  /\ output = Undefined
  /\ reclassified = Undefined
  /\ retryable = {}
  /\ history \in ChatHistories
  /\ files = [i \in 1..MaxIds |-> {}]
  /\ now = MaxClock
  /\ conversation = createNewConversation(1, MaxClock, MaxClock)
  /\ nextId = 2
  /\ returned = << >>
  /\ lastCall = Call("new", "", "", 0)
  /\ statsFile = {}
  /\ stats = ZeroStats
  /\ base = stats
  /\ usages = << >>
  /\ costCall = CostCall("new", NoUsage)
  /\ client \in {c \in ClientConfigs : c.defaultModel = DefaultModel}
  /\ reply = {}
  /\ front \in {"ask", "chat"}
  /\ handler = "idle"
  /\ isLoading = FALSE
  /\ before = NoSnapshot
  /\ ProcessUnused

ChatFrame ==
  \/ /\ \E response \in Responses : RemoteResolves(response)
     /\ UNCHANGED procVars
  \/ /\ \E e \in RequestFailures : OpRejects(e)
     /\ UNCHANGED appVars
     /\ UNCHANGED procVars
  \/ /\ TimerFires
     /\ UNCHANGED appVars
     /\ UNCHANGED procVars

NextChat ==
  \/ \E text \in TypedTexts : TextInput_onChange(text)
  \/ handleSubmit
  \/ ChatResolved
  \/ ChatRejected
  \/ ChatAsk
  \/ ChatAskResolved
  \/ ChatAskRejected
  \/ \E command \in {"ask", "chat"} : Invoke(command)
  \/ ChatFrame

SpecChat == InitChat /\ [][NextChat]_vars

----------------------------------------------------------------------------
(* Properties of the retry executor *)

Settled == pc \in {"resolved", "rejected"}

RetryEligibleKinds == {"RateLimitError", "ServerError", "NetworkError"}
NonRetryableKinds == {"AuthError", "ValidationError", "AIClientError"}

OnRetryEvents == SelectSeq(log, LAMBDA e : e.ev = "onRetry")
Outcomes == SelectSeq(log, LAMBDA e : e.ev \in {"ok", "fail"})

EligibleFailure(e) == e.ev = "fail" /\ e.err.cls \in RetryEligibleKinds

\* every invocation so far has failed with a retry-eligible error
AlwaysFailsEligible == \A i \in DOMAIN Outcomes : EligibleFailure(Outcomes[i])

RECURSIVE StreakLen(_)
\* length of the initial run of retry-eligible failures
StreakLen(s) ==
  IF s = << >> \/ ~EligibleFailure(Head(s)) THEN 0 ELSE 1 + StreakLen(Tail(s))

\* C1: with maxRetries = N >= 0 and an operation that fails with a
\* retry-eligible error on every invocation, withRetry invokes the operation
\* exactly N+1 times, invokes onRetry exactly N times, and then rejects.
C1_ExhaustsRetryBudget ==
  (config.maxRetries >= 0 /\ AlwaysFailsEligible) =>
     /\ calls <= config.maxRetries + 1
     /\ Len(OnRetryEvents) <= config.maxRetries
     /\ Settled => /\ calls = config.maxRetries + 1
                   /\ Len(OnRetryEvents) = config.maxRetries
                   /\ result.state = "rejected"

C1_Witness ==
  /\ pc = "rejected"
  /\ config.maxRetries = 2
  /\ AlwaysFailsEligible
  /\ calls = 3
  /\ Len(OnRetryEvents) = 2

\* C2: a failure with a non-retryable classified error (AuthError,
\* ValidationError, plain AIClientError) is the last thing that happens:
\* withRetry rejects with it at once, no invocation and no onRetry follows,
\* and a first attempt failing so means exactly one invocation in total.
C2_NonRetryableRejectsAtOnce ==
  \A i \in DOMAIN log :
    (log[i].ev = "fail" /\ log[i].err.cls \in NonRetryableKinds) =>
       /\ i = Len(log)
       /\ pc = "rejected"
       /\ result = Rejected(log[i].err)
       /\ calls = log[i].n
       /\ log[i].n = 1 => (calls = 1 /\ OnRetryEvents = << >>)

C2_Witness ==
  /\ pc = "rejected"
  /\ config.maxRetries = 3
  /\ calls = 1
  /\ result.error.cls = "AuthError"
  /\ OnRetryEvents = << >>

\* C3: when withRetry has settled, the number of invocations of the
\* operation is 1 + min(s, maxRetries), s being the length of the initial
\* run of retry-eligible failures among the operation's outcomes.
C3_InvocationCount ==
  Settled => calls = 1 + Min(StreakLen(Outcomes), config.maxRetries)

C3_Witness ==
  /\ pc = "resolved"
  /\ config.maxRetries = 3
  /\ StreakLen(Outcomes) = 2
  /\ calls = 3

\* C4: a successful attempt ends the call: withRetry resolves with exactly
\* that attempt's value (undefined and null included) and neither the
\* operation nor onRetry is invoked afterwards.
C4_SuccessShortCircuits ==
  \A i \in DOMAIN log :
    log[i].ev = "ok" =>
       /\ i = Len(log)
       /\ pc = "resolved"
       /\ result = Resolved(log[i].value)
       /\ calls = log[i].n

C4_Witness ==
  /\ pc = "resolved"
  /\ calls = 2
  /\ Len(OnRetryEvents) = 1
  /\ result.value = "null"

\* number of onRetry events among the first i events
OnRetryCountUpTo(i) == Cardinality({j \in 1..i : log[j].ev = "onRetry"})

\* C5: every onRetry invocation is followed by a backoff wait and then by
\* another invocation of the operation, none follows the successful attempt
\* or the final failure, and once withRetry has settled the number of
\* onRetry calls equals the number of operation invocations minus one.
C5_ObserverOnlyBeforeRetry ==
  /\ \A i \in DOMAIN log :
       log[i].ev = "onRetry" =>
          /\ i + 1 <= Len(log) /\ log[i + 1].ev = "sleep"
          /\ i + 3 <= Len(log) => log[i + 3].ev = "invoke"
  /\ Settled => Len(OnRetryEvents) = calls - 1

\* C6: the k-th onRetry invocation receives attempt number k, comes right
\* after the k-th invocation of the operation has failed, and the k-th
\* backoff wait starts only after it.
C6_ObserverNumberedAndBeforeWait ==
  \A i \in DOMAIN log :
    log[i].ev = "onRetry" =>
       LET k == OnRetryCountUpTo(i) IN
       /\ log[i].n = k
       /\ i > 1 /\ log[i - 1].ev = "fail" /\ log[i - 1].n = k
       /\ Cardinality({j \in 1..i : log[j].ev = "sleep"}) = k - 1
       /\ i < Len(log) /\ log[i + 1].ev = "sleep" /\ log[i + 1].d = log[i].d

C6_Witness ==
  /\ Len(OnRetryEvents) = 3
  /\ OnRetryEvents[3].n = 3
  /\ pc = "sleep"

\* min(baseDelayMs * 2^(k-1), maxDelayMs)
NominalDelay(k) == Min(config.baseDelayMs * 2^(k - 1), config.maxDelayMs)

\* C7: the delay reported to onRetry for the k-th retry, which is also the
\* delay waited, lies in [D, D + 250) for D = min(baseDelayMs * 2^(k-1),
\* maxDelayMs); base 1000 / max 8000 gives [1000,1250), [2000,2250),
\* [4000,4250); base 1000 / max 2000 caps the 3rd and later delays to
\* [2000,2250).
C7_DelayWithinJitterBand ==
  \A i \in DOMAIN log :
    log[i].ev = "onRetry" =>
       LET k == OnRetryCountUpTo(i)
           d == log[i].d
       IN /\ NominalDelay(k) <= d /\ d < NominalDelay(k) + 250
          /\ i < Len(log) /\ log[i + 1].d = d
          /\ (config.baseDelayMs = 1000 /\ config.maxDelayMs = 8000 /\ k <= 3) =>
                (1000 * 2^(k - 1) <= d /\ d < 1000 * 2^(k - 1) + 250)
          /\ (config.baseDelayMs = 1000 /\ config.maxDelayMs = 2000 /\ k >= 3) =>
                (2000 <= d /\ d < 2250)

C7_Witness ==
  /\ config.baseDelayMs = 1000
  /\ config.maxDelayMs = 2000
  /\ Len(OnRetryEvents) = 3
  /\ OnRetryEvents[3].d = 2249
  /\ OnRetryEvents[1].d = 1000

\* the claim's retry-eligible raw failures: status 429 or 5xx, or code
\* ECONNREFUSED / ETIMEDOUT
CarriesRetryEligible(raw) ==
  \/ raw.status = {429}
  \/ InRange(raw.status, 500, 600)
  \/ raw.code = {"ECONNREFUSED"}
  \/ raw.code = {"ETIMEDOUT"}

\* the same, a 4xx/5xx status taking precedence over the transport code
ClassifiesRetryEligible(raw) ==
  \/ raw.status = {429}
  \/ InRange(raw.status, 500, 600)
  \/ /\ raw.code \in {{"ECONNREFUSED"}, {"ETIMEDOUT"}}
     /\ ~InRange(raw.status, 400, 600)

\* C8 as stated: whenever the operation fails with an unclassified raw
\* failure, withRetry classifies it: one carrying 429, 5xx, ECONNREFUSED or
\* ETIMEDOUT is retried while the budget lasts, and what withRetry rejects
\* with is a classified AIClientError.
C8_WithRetryClassifies ==
  \A i \in DOMAIN log :
    (log[i].ev = "fail" /\ log[i].raw.cls = "Object") =>
       /\ (CarriesRetryEligible(log[i].raw) /\ log[i].n <= config.maxRetries) =>
             (i < Len(log) /\ log[i + 1].ev = "onRetry")
       /\ (i = Len(log) /\ pc = "rejected") =>
             instanceOf(result.error, "AIClientError")

\* C8 amended: withRetry itself does not classify. Under sendMessage the
\* operation classifies the raw failure of the remote call before withRetry
\* sees it, so a raw failure that classifies as retry-eligible is retried
\* while the budget lasts, any other ends the call, and the rejection is a
\* classified AIClientError. A raw failure thrown by an operation handed
\* directly to withRetry is not retried and is propagated as it is.
C8_SendMessageClassifies ==
  \A i \in DOMAIN log :
    (log[i].ev = "fail" /\ log[i].raw.cls = "Object") =>
       IF viaClient
         THEN /\ instanceOf(log[i].err, "AIClientError")
              /\ (ClassifiesRetryEligible(log[i].raw) /\ log[i].n <= config.maxRetries) =>
                    (i < Len(log) /\ log[i + 1].ev = "onRetry")
              /\ ~ClassifiesRetryEligible(log[i].raw) => i = Len(log)
              /\ i = Len(log) =>
                    /\ pc = "rejected"
                    /\ result = Rejected(log[i].err)
                    /\ instanceOf(result.error, "AIClientError")
         ELSE /\ i = Len(log)
              /\ pc = "rejected"
              /\ result = Rejected(log[i].raw)

C8_Witness ==
  /\ viaClient
  /\ pc = "rejected"
  /\ calls = 2
  /\ log[2].ev = "fail" /\ log[2].raw.status = {429}
  /\ log[3].ev = "onRetry"
  /\ result.error.cls = "AuthError"
  /\ log[Len(log)].raw.status = {403}

\* C9: withRetry invokes the operation at least once before it settles, for
\* every retry policy loadConfig returns; such a policy has maxRetries >= 0.
C9_InvokedAtLeastOnce ==
  Settled => (calls >= 1 /\ config.maxRetries >= 0)

----------------------------------------------------------------------------
(* Properties of the classifier *)

\* the status the claim's rules look at: status, or statusCode when there is
\* no status (a status of 0 is no HTTP status and counts as absent)
StatusOf(d) == IF d.status \notin {{}, {0}} THEN d.status ELSE d.statusCode

\* the kind chosen by first match, in the order of the claim
KindByPrecedence(d) ==
  LET s == StatusOf(d) IN
  IF s \in {{401}, {403}} THEN "AuthError"
  ELSE IF s = {429} THEN "RateLimitError"
  ELSE IF \E v \in s : v \in 500..599 THEN "ServerError"
  ELSE IF \E v \in s : v \in 400..499 THEN "ValidationError"
  ELSE IF d.code \in {{"ECONNREFUSED"}, {"ETIMEDOUT"}} THEN "NetworkError"
  ELSE "AIClientError"

\* C10: for every raw failure descriptor classifyError returns the kind of
\* the first matching rule: 401/403 AuthError, 429 RateLimitError, 500..599
\* ServerError, other 400..499 ValidationError, ECONNREFUSED/ETIMEDOUT
\* NetworkError, otherwise plain AIClientError; a status match wins over a
\* transport code and status is preferred to statusCode.
C10_FirstMatchWins ==
  (pc = "classified" /\ input.cls = "Object") =>
     /\ output.cls = KindByPrecedence(input)
     /\ output.cls \in ErrorSubclasses \cup {"AIClientError"}

C10_Witness ==
  /\ pc = "classified"
  /\ input.status = {503}
  /\ input.statusCode = {401}
  /\ input.code = {"ETIMEDOUT"}
  /\ output.cls = "ServerError"

\* C11: isRetryable is true exactly for RateLimitError, ServerError and
\* NetworkError and false for AuthError, ValidationError and plain
\* AIClientError; so isRetryable(classifyError(d)) is true exactly when the
\* raw descriptor d classifies as rate-limited, service or connectivity
\* failure.
C11_RetryableIffTransient ==
  \A b \in retryable :
    /\ b <=> output.cls \in RetryEligibleKinds
    /\ output.cls \in NonRetryableKinds => ~b
    /\ input.cls = "Object" => (b <=> KindByPrecedence(input) \in RetryEligibleKinds)

C11_Witness ==
  /\ retryable = {TRUE}
  /\ input.cls = "Object"
  /\ input.status = {}
  /\ input.statusCode = {}
  /\ input.code = {"ETIMEDOUT"}

\* C12: classifyError returns an already classified error as the same
\* object, kind, message and status untouched, and classifying the value it
\* returned gives that same object again.
C12_IdempotentSameObject ==
  /\ (pc = "classified" /\ instanceOf(input, "AIClientError")) => output = input
  /\ reclassified # Undefined => (pc = "classified" /\ reclassified = output)

C12_Witness ==
  /\ input.cls = "Object"
  /\ output.cls = "ServerError"
  /\ reclassified # Undefined
  /\ reclassified.oid = output.oid
  /\ output.oid # input.oid

\* C13: classifyError(null) and classifyError(undefined) return a plain
\* AIClientError whose message is "Unknown error".
C13_NullIsUnknownError ==
  (pc # "classify" /\ input.cls \in {"null", "undefined"}) =>
     /\ pc = "classified"
     /\ output.cls = "AIClientError"
     /\ output.message = {"Unknown error"}

\* C14: classifyError never throws: for every input, null and undefined
\* included, the call returns a classified error.
C14_NeverThrows ==
  /\ pc # "threw"
  /\ pc = "classified" => instanceOf(output, "AIClientError")

----------------------------------------------------------------------------
(* Properties of the conversation manager *)

Messages == conversation.messages

IsPrefix(a, b) == Len(a) <= Len(b) /\ a = SubSeq(b, 1, Len(a))
IsSuffix(a, b) == Len(a) <= Len(b) /\ a = SubSeq(b, Len(b) - Len(a) + 1, Len(b))

\* getMessages() has just returned `returned`; the call leaves the
\* conversation as it was, so Messages is what the call saw
Got == lastCall.op = "getMessages"

\* C15: with history enabled and maxMessages = m >= 1, getMessages returns
\* exactly the last min(m, n) of the n stored messages, in their order
C15_LastMinWindow ==
  (Got /\ history.enabled /\ history.maxMessages >= 1) =>
    LET n == Len(Messages)
        k == Min(history.maxMessages, n)
    IN /\ Len(returned) = k
       /\ \A i \in 1..k : returned[i] = Messages[n - k + i]

C15_Witness ==
  /\ Got /\ history.enabled
  /\ history.maxMessages = 2 /\ Len(Messages) = 3
  /\ returned = <<Messages[2], Messages[3]>>
  /\ Messages[2] # Messages[3]

\* C16: with history enabled and maxMessages = 0, getMessages returns an
\* empty sequence however many messages are stored
C16_ZeroWindowIsEmpty ==
  (Got /\ history.enabled /\ history.maxMessages = 0) => Len(returned) = 0

\* C17: with history disabled, getMessages returns just the most recent
\* message, or nothing when no message is stored, whatever maxMessages is
C17_DisabledReturnsLatest ==
  (Got /\ ~history.enabled) =>
    IF Len(Messages) = 0 THEN Len(returned) = 0
    ELSE returned = <<Messages[Len(Messages)]>>

C17_Witness ==
  /\ Got /\ ~history.enabled /\ history.maxMessages = 0
  /\ Len(Messages) >= 2
  /\ returned = <<Messages[Len(Messages)]>>
  /\ Messages[1] # Messages[Len(Messages)]

\* C18: for every history config, getMessages returns a contiguous suffix
\* of the stored messages and leaves the conversation (id, messages,
\* createdAt, updatedAt) unchanged
C18_SuffixAndFrame ==
  [][lastCall'.op = "getMessages" =>
       /\ IsSuffix(returned', Messages)
       /\ conversation' = conversation]_vars

C18_Witness ==
  /\ Got
  /\ Len(returned) >= 1 /\ Len(returned) < Len(Messages)
  /\ IsSuffix(returned, Messages)

\* C19: addMessage appends one message with the given role and content and
\* sets updatedAt, leaving the earlier messages, the id and createdAt alone;
\* short of a reset the messages only grow and getSessionId keeps returning
\* the same id
C19_AppendOnly ==
  [][/\ lastCall'.op = "addMessage" =>
          /\ Len(conversation'.messages) = Len(Messages) + 1
          /\ IsPrefix(Messages, conversation'.messages)
          /\ LET added == conversation'.messages[Len(Messages) + 1] IN
               /\ added.role = lastCall'.role
               /\ added.content = lastCall'.content
               /\ added.timestamp <= conversation'.updatedAt
          /\ conversation'.updatedAt = now'
          /\ conversation'.id = conversation.id
          /\ conversation'.createdAt = conversation.createdAt
     /\ lastCall'.op # "reset" =>
          /\ IsPrefix(Messages, conversation'.messages)
          /\ conversation'.id = conversation.id
     /\ lastCall'.op = "getSessionId" => returned' = <<conversation.id>>]_vars

C19_Witness ==
  /\ lastCall.op = "addMessage"
  /\ Len(Messages) >= 2
  /\ Messages[Len(Messages)].role = lastCall.role
  /\ Messages[Len(Messages)].content = lastCall.content
  /\ Messages[1].role # lastCall.role
  /\ conversation.updatedAt > conversation.createdAt

\* C20: in every state of a manager (fresh, resumed from a session file,
\* after addMessage and reset), updatedAt >= createdAt and the message
\* timestamps never decrease along the sequence
C20_TimestampsOrdered ==
  /\ conversation.updatedAt >= conversation.createdAt
  /\ \A i, j \in 1..Len(Messages) :
       i <= j => Messages[i].timestamp <= Messages[j].timestamp

C20_Witness ==
  /\ lastCall.op = "addMessage"
  /\ files[conversation.id] # {}
  /\ nextId > conversation.id + 1
  /\ Len(Messages) = 2
  /\ Messages[1].timestamp < Messages[2].timestamp
  /\ conversation.createdAt < conversation.updatedAt

\* C21: reset() leaves no message (getMessages is empty too), gives the
\* conversation an id this manager never had, and sets createdAt and
\* updatedAt to the same instant
C21_ResetStartsAfresh ==
  [][lastCall'.op = "reset" =>
       /\ Len(conversation'.messages) = 0
       /\ Len(getMessages(conversation'.messages, history')) = 0
       /\ conversation'.id >= nextId
       /\ conversation'.id # conversation.id
       /\ conversation'.updatedAt = conversation'.createdAt]_vars

----------------------------------------------------------------------------
(* Properties of the cost tracker *)

CounterNames == {"totalInputTokens", "totalOutputTokens", "totalCost", "requestCount"}

RECURSIVE SumOf(_, _)
SumOf(records, field) ==
  IF records = << >> THEN 0
  ELSE records[1][field] + SumOf(Tail(records), field)

\* the tracker was constructed with zero stats, or reset since
FromZero == \A c \in CounterNames : base[c] = 0

\* C22: after addUsage calls on a tracker that started from zero stats (or
\* since its last reset), the three totals are the sums over the records and
\* requestCount is the number of calls
C22_TotalsAreSums ==
  FromZero =>
    /\ stats.totalInputTokens = SumOf(usages, "inputTokens")
    /\ stats.totalOutputTokens = SumOf(usages, "outputTokens")
    /\ stats.totalCost = SumOf(usages, "totalCost")
    /\ stats.requestCount = Len(usages)

C22_Witness ==
  /\ FromZero
  /\ costCall.op = "addUsage"
  /\ Len(usages) = 2 /\ usages[1] # usages[2]
  /\ stats.totalCost = usages[1].totalCost + usages[2].totalCost
  /\ stats.totalCost > stats.totalInputTokens

\* C23: within a process run no counter decreases or is negative, except
\* that reset() zeroes all four; only addUsage and reset change a counter
C23_CountersMonotone ==
  [][/\ \A c \in CounterNames : stats'[c] >= 0
     /\ costCall'.op \notin {"reset", "new"} =>
          \A c \in CounterNames : stats'[c] >= stats[c]
     /\ costCall'.op = "reset" => \A c \in CounterNames : stats'[c] = 0
     /\ costCall'.op \in {"getStats", "formatUsage", "formatStats", "persist"} =>
          stats' = stats
     /\ (\E c \in CounterNames : stats'[c] # stats[c]) =>
          costCall'.op \in {"addUsage", "reset", "new"}]_vars

C23_Witness ==
  /\ costCall.op = "reset"
  /\ statsFile # {}
  /\ stats.lastUpdated # {}
  /\ parseStats(The(statsFile)).requestCount = MaxRequests
  /\ \A c \in CounterNames : stats[c] = 0

----------------------------------------------------------------------------
(* Properties of the commands *)

\* C24: the stats are updated and flushed only after sendMessage has
\* resolved: while a request is under way, and when it fails (at once or
\* after retries), the counters in memory and stats.json are as they were
\* when the request was submitted
C24_NothingCommittedOnFailure ==
  [][(handler = "awaiting" /\ pc # "resolved") =>
       /\ stats' = before.stats
       /\ statsFile' = before.statsFile]_vars

C24_Witness ==
  /\ handler = "awaiting"
  /\ pc = "rejected"
  /\ calls >= 2
  /\ before.stats.requestCount >= 1
  /\ stats = before.stats
  /\ statsFile = before.statsFile

\* the message of the error thrown when the model has no pricing entry
NamesTheModel(error) ==
  error.message = {"Pricing not configured for model: " \o client.defaultModel}

\* C25: when the active model has no pricing entry, sendMessage rejects with
\* an error whose message names the model, which is not retry-eligible, and
\* the remote call was made exactly once, whatever maxRetries is
C25_MissingPricingFailsOnce ==
  (viaClient /\ client.pricing = {} /\ Settled) =>
    /\ result.state = "rejected"
    /\ NamesTheModel(result.error)
    /\ ~isRetryable(result.error)
    /\ calls = 1

\* C26: every usage record sendMessage returns has the token counts of the
\* response, inputCost = inputTokens / 1000 * inputPer1k, outputCost =
\* outputTokens / 1000 * outputPer1k and totalCost their sum
C26_UsageFromPricing ==
  \A r \in reply :
    LET pricing == The(client.pricing) IN
    /\ r.usage.inputTokens = r.response.inputTokens
    /\ r.usage.outputTokens = r.response.outputTokens
    /\ r.usage.inputCost * PerThousand = r.usage.inputTokens * pricing.inputPer1k
    /\ r.usage.outputCost * PerThousand = r.usage.outputTokens * pricing.outputPer1k
    /\ r.usage.totalCost = r.usage.inputCost + r.usage.outputCost

\* 1000 in / 2000 out at 0.003 / 0.015 gives 0.003, 0.030, 0.033
C26_Witness ==
  /\ pc = "resolved"
  /\ client.pricing = {SonnetPricing}
  /\ \E r \in reply :
       r.usage = [inputTokens |-> 1000, outputTokens |-> 2000,
                  inputCost |-> 3000, outputCost |-> 30000, totalCost |-> 33000]


----------------------------------------------------------------------------
(* Properties of the storage *)

\* C27: saveStats and saveSession are crash-atomic: no step of a save, and
\* no crash or failure in the middle of one, leaves in the target file
\* (stats.json, sessions/<id>.json) anything but what it held before or the
\* complete new data.
C27_TargetOldOrNew ==
  [][/\ \/ statsFile' = statsFile
        \/ saving.fn = "saveStats" /\ statsFile' = {saving.data}
     /\ \A id \in DOMAIN files :
          \/ files'[id] = files[id]
          \/ saving.fn = "saveSession" /\ saving.id = id /\ files'[id] = {saving.data}]_vars

\* a process died between the write of stats.json.tmp and the rename:
\* stats.json still holds the data of the save before
C27_Witness ==
  /\ saving.at = "crashed"
  /\ saving.fn = "saveStats"
  /\ statsTmp = {saving.data}
  /\ statsFile # {}
  /\ statsFile # {saving.data}
  /\ \E st \in StoredStats : statsFile = saveStats(st, now)

\* C28: in the readline loop the handlers of two lines never interleave:
\* while the request of one line is awaited, the conversation and the
\* session counters are changed by nothing but the completion of that one
\* request, which happens in the conversation the request was sent in.
C28_LineHandlersSerialised ==
  [][lines # << >> =>
       \/ conversation' = conversation /\ totals' = totals
       \/ /\ Len(lines) = 1
          /\ lines' = << >>
          /\ lines[1].sentIn = conversation.id
          /\ conversation'.id = conversation.id]_vars

\* C29: once the user has aborted during a backoff delay, the operation is
\* not invoked again and nothing of the aborted request is committed: no
\* message appended, no addUsage, no persist, no session save.
C29_AbortAbandonsTheWait ==
  [][aborted # "no" =>
       /\ calls' = calls
       /\ conversation' = conversation
       /\ stats' = stats
       /\ statsFile' = statsFile
       /\ files' = files]_vars

\* C30: save and resume round-trip: after save() of a conversation with at
\* least one message, a ConversationManager constructed with that session
\* id holds a conversation with the same id and the same messages in the
\* same order; without a valid session file for the requested id it holds
\* a new empty conversation with a freshly generated id.
C30_SaveResumeRoundTrip ==
  [][/\ (lastCall'.op = "save" /\ Len(conversation.messages) > 0) =>
          \E loaded \in loadSession(files', conversation.id) :
             /\ loaded.id = conversation.id
             /\ loaded.messages = conversation.messages
     /\ lastCall'.op = "resume" =>
          LET sessionId == lastCall'.sessionId IN
          IF files[sessionId] # {}
            THEN /\ conversation'.id = sessionId
                 /\ \E loaded \in loadSession(files, sessionId) :
                      conversation'.messages = loaded.messages
            ELSE /\ conversation'.id = nextId
                 /\ nextId' > nextId
                 /\ conversation'.messages = << >>]_vars

\* a manager resumed the first session, saved with two messages, after
\* another conversation had taken its place in memory
C30_Witness ==
  /\ lastCall.op = "resume"
  /\ lastCall.sessionId = 1
  /\ nextId > 2
  /\ conversation.id = 1
  /\ Len(conversation.messages) = 2
  /\ conversation.messages[1].role = "user"
  /\ conversation.messages[2].role = "assistant"
  /\ files[1] = {stringify(conversation)}

----------------------------------------------------------------------------
(* Further properties of the retry executor and the classifier *)

Failures == SelectSeq(log, LAMBDA e : e.ev = "fail")

\* C33: when withRetry rejects, the rejection value is the very error object
\* thrown by the last invocation of the operation: not the error of an
\* earlier attempt, not a wrapper, and with kind, message and status as
\* thrown.
C33_RejectsWithLastThrown ==
  pc = "rejected" =>
    /\ calls >= 1
    /\ Failures # << >>
    /\ LET last == Failures[Len(Failures)] IN
         /\ last.n = calls
         /\ result = Rejected(last.err)

\* C34: the classified error carries the original status only for service
\* failures: a raw status s in 500..599 gives a ServerError with statusCode
\* s; every AuthError has statusCode 401 (raw 403 too), every
\* ValidationError 400 (raw 404 and 422 too), every RateLimitError 429, and
\* NetworkError and the errors classified as unknown have none.
C34_StatusCarried ==
  pc = "classified" =>
    /\ output.cls = "AuthError" => output.statusCode = {401}
    /\ output.cls = "ValidationError" => output.statusCode = {400}
    /\ output.cls = "RateLimitError" => output.statusCode = {429}
    /\ output.cls = "NetworkError" => output.statusCode = {}
    /\ input.cls = "Object" =>
         LET s == StatusOf(input) IN
         /\ (\E v \in s : v \in 500..599) =>
              (output.cls = "ServerError" /\ output.statusCode = s)
         /\ output.cls = "ServerError" => output.statusCode = s
         /\ s \in {{403}} => output.cls = "AuthError"
         /\ s \in {{404}, {422}} => output.cls = "ValidationError"
         /\ output.cls = "AIClientError" => output.statusCode = {}

C34_Witness ==
  /\ pc = "classified"
  /\ input.cls = "Object"
  /\ input.status = {599}
  /\ input.statusCode = {500}
  /\ output.cls = "ServerError"
  /\ output.statusCode = {599}

Sleeps == SelectSeq(log, LAMBDA e : e.ev = "sleep")

\* C37: when every invocation of the operation settles, every withRetry call
\* settles too, after at most maxRetries + 1 invocations and at most
\* maxRetries backoff waits.
C37_Terminates ==
  /\ [](pc # "idle" =>
          (calls <= config.maxRetries + 1 /\ Len(Sleeps) <= config.maxRetries))
  /\ (pc \in {"await", "sleep"}) ~> Settled

----------------------------------------------------------------------------
(* Properties of loadConfig *)

NamesVariable == rawApiKey # {} /\ startsWith(The(rawApiKey), EnvPrefix)
NamedVariable == SubSeq(The(rawApiKey), Len(EnvPrefix) + 1, Len(The(rawApiKey)))

\* C32: the API key by precedence: an apiKey env:VAR gives the value of VAR
\* and loadConfig throws when VAR is unset or empty, without falling back to
\* ANTHROPIC_API_KEY; any other non-empty apiKey is used literally; with no
\* apiKey ANTHROPIC_API_KEY is used; with neither loadConfig throws 'API key
\* not found'.  A returned config has a non-empty apiKey.
C32_ApiKeyPrecedence ==
  keyResult.state # "none" =>
    /\ keyResult.state = "returned" => keyResult.apiKey # << >>
    /\ IF NamesVariable
         THEN IF Falsy(getenv(env, NamedVariable))
                THEN /\ keyResult.state = "threw"
                     /\ keyResult.message = "Environment variable is not set"
                ELSE keyResult = Returned(The(getenv(env, NamedVariable)))
         ELSE IF ~Falsy(rawApiKey)
                THEN keyResult = Returned(The(rawApiKey))
         ELSE IF ~Falsy(env[ANTHROPIC_API_KEY])
                THEN keyResult = Returned(The(env[ANTHROPIC_API_KEY]))
         ELSE /\ keyResult.state = "threw"
              /\ keyResult.message = "API key not found"

\* env:MY_API_KEY with MY_API_KEY empty and ANTHROPIC_API_KEY set: thrown
C32_Witness ==
  /\ rawApiKey = {EnvPrefix \o MY_API_KEY}
  /\ env[MY_API_KEY] = {<< >>}
  /\ env[ANTHROPIC_API_KEY] = {<<"s", "k", "1">>}
  /\ keyResult.state = "threw"

----------------------------------------------------------------------------
(* Properties of concurrent saves *)

\* what readFileSync(STATS_FILE) returns: {} when there is no such file
StatsFileRead == IF paths.target = 0 THEN {} ELSE {inodes[paths.target]}

Snapshots == {writers[p].data : p \in {q \in Processes : writers[q].at # "idle"}}

\* C35: when two processes run saveStats at once, stats.json holds at every
\* moment a complete file (the one from before, or the complete snapshot of
\* one of the two), and when both are done it holds the complete snapshot
\* of one of them: never a truncated or mixed file.
C35_LastWriterWins ==
  /\ \A content \in StatsFileRead :
       content \in Snapshots \cup {The(e) : e \in EarlierStatsFiles \ {{}}}
  /\ (\A p \in Processes : writers[p].at = "done") =>
        \E p \in Processes : StatsFileRead = {writers[p].data}

----------------------------------------------------------------------------
(* Properties of ChatApp *)

\* no two neighbours of the list have the same role
Alternates(list) ==
  \A i \in 1..(Len(list) - 1) : list[i].role # list[i + 1].role

\* C36: every message list handleSubmit passes to sendMessage is non-empty,
\* starts with a user message, strictly alternates user and assistant roles
\* and ends with the user message just submitted
C36_RequestWellFormed ==
  sent # {} =>
    LET list == The(sent) IN
      /\ list # << >>
      /\ list[1].role = "user"
      /\ Alternates(list)
      /\ list[Len(list)].role = "user"
      /\ handler = "awaiting" =>
           list[Len(list)] = conversation.messages[Len(conversation.messages)]

\* a Return key event that is not a repetition of the one before
ReturnPressed == lastKey' = "return" /\ lastKey # "return"

\* C38: in ChatApp at most one request is in flight: while isLoading is set a
\* submission (a message, /reset, /exit, another command) is ignored and
\* changes neither the conversation nor the cost tracker nor the input, no
\* request starts while one is loading, and isLoading is cleared after a
\* successful and after a failed request
C38_OneRequestInFlight ==
  /\ [](front = "chat" => (isLoading <=> handler = "awaiting"))
  /\ [](front = "chat" /\ ~isLoading => pc = "idle")
  /\ [][(front = "chat" /\ isLoading /\ ReturnPressed) =>
          /\ UNCHANGED <<conversation, nextId, files, typed, sent>>
          /\ UNCHANGED <<stats, statsFile, base, usages>>
          /\ UNCHANGED <<handler, isLoading, pc, calls, log>>]_vars
  /\ [][(front = "chat" /\ pc # "idle" /\ pc' = "idle") =>
          (pc \in {"resolved", "rejected"} /\ ~isLoading')]_vars

\* Return was pressed on a text while a request was loading, and the text is
\* still in the box
C38_Witness ==
  /\ front = "chat"
  /\ isLoading
  /\ pc \in {"await", "sleep"}
  /\ lastKey = "return"
  /\ trim(typed) # ""

\* the session files that exist
SessionFiles == {i \in DOMAIN files : files[i] # {}}

RECURSIVE TokensOf(_, _)
TokensOf(us, outgoing) ==
  IF us = << >> THEN 0
  ELSE (IF outgoing THEN Head(us).outputTokens ELSE Head(us).inputTokens)
         + TokensOf(Tail(us), outgoing)

\* C31: after each successful request of a run of ask and chat invocations
\* (chats with /reset included) stats.json holds the requestCount and the
\* token totals of all the successful requests made so far
C31_StatsAccumulate ==
  ledger # << >> =>
    /\ statsFile # {}
    /\ LET persisted == The(loadStats(statsFile)) IN
         /\ persisted.requestCount = Len(ledger)
         /\ persisted.totalInputTokens = TokensOf(ledger, FALSE)
         /\ persisted.totalOutputTokens = TokensOf(ledger, TRUE)

====
